---- MODULE Spec2Model ----
(***************************************************************************)
(* Model of the subtitle burner service (src/server.js): the two HTTP      *)
(* endpoints /api/add-subtitles and /api/transcribe, their scratch files,  *)
(* and the style-to-renderer compiler they call.                           *)
(*                                                                         *)
(* Conventions.  A JavaScript string is a tuple of one-character strings   *)
(* where the code looks inside it (numeric form fields, cue text), and a   *)
(* TLA+ string where the code only compares it or uses it as a table key.  *)
(* A form field that is absent (undefined) is the empty string: every use  *)
(* of a field in the handlers is `x || d`, `!x`, parseInt(x) or a table    *)
(* lookup, and undefined and '' behave alike under all four.  Times are    *)
(* integer milliseconds.                                                   *)
(***************************************************************************)
EXTENDS Integers, Sequences, FiniteSets, TLC

VARIABLES now, files, reqs, apiKey

vars == <<now, files, reqs, apiKey>>

(***************************************************************************)
(* Bounds                                                                  *)
(***************************************************************************)
MaxReq == 2
MaxClock == 1

Requests == 1..MaxReq

(***************************************************************************)
(* Strings                                                                 *)
(***************************************************************************)
Digits == {"0", "1", "2", "3", "4", "5", "6", "7", "8", "9"}

DigitVal(c) ==
  CASE c = "0" -> 0 [] c = "1" -> 1 [] c = "2" -> 2 [] c = "3" -> 3
    [] c = "4" -> 4 [] c = "5" -> 5 [] c = "6" -> 6 [] c = "7" -> 7
    [] c = "8" -> 8 [] c = "9" -> 9

IsSpace(c) == c \in {" ", "\n", "\t"}

RECURSIVE DropSpaces(_)
DropSpaces(s) ==
  IF s # <<>> /\ IsSpace(Head(s)) THEN DropSpaces(Tail(s)) ELSE s

RECURSIVE DigitPrefix(_)
DigitPrefix(s) ==
  IF s # <<>> /\ Head(s) \in Digits THEN <<Head(s)>> \o DigitPrefix(Tail(s)) ELSE <<>>

RECURSIVE DecimalValue(_, _)
DecimalValue(ds, acc) ==
  IF ds = <<>> THEN acc ELSE DecimalValue(Tail(ds), 10 * acc + DigitVal(Head(ds)))

\* parseInt(x): leading white space, an optional sign, then the longest run
\* of decimal digits; NaN when that run is empty.
parseInt(x) ==
  LET t == DropSpaces(x)
      neg == t # <<>> /\ Head(t) = "-"
      u == IF t # <<>> /\ Head(t) \in {"-", "+"} THEN Tail(t) ELSE t
      ds == DigitPrefix(u)
  IN IF ds = <<>> THEN [nan |-> TRUE, val |-> 0]
     ELSE [nan |-> FALSE, val |-> IF neg THEN 0 - DecimalValue(ds, 0) ELSE DecimalValue(ds, 0)]

\* parseInt(x) || d : NaN and 0 are both falsy.
parseIntOr(x, d) ==
  LET p == parseInt(x) IN IF p.nan \/ p.val = 0 THEN d ELSE p.val

\* x || d for a string field.
OrDefault(x, d) == IF x = "" THEN d ELSE x

\* text.split(/\s+/).filter(w => w.length > 0)
RECURSIVE SplitWords(_, _, _)
SplitWords(s, cur, acc) ==
  IF s = <<>> THEN (IF cur = <<>> THEN acc ELSE Append(acc, cur))
  ELSE IF IsSpace(Head(s))
       THEN SplitWords(Tail(s), <<>>, IF cur = <<>> THEN acc ELSE Append(acc, cur))
       ELSE SplitWords(Tail(s), Append(cur, Head(s)), acc)

\* text.split(/\s+/) left unfiltered: a text without words still gives an
\* empty word.
splitWordsUnfiltered(text) ==
  IF SplitWords(text, <<>>, <<>>) = <<>> THEN << <<>> >> ELSE SplitWords(text, <<>>, <<>>)

splitWords(text) == SplitWords(text, <<>>, <<>>)

\* parts.join(sep), sep a tuple of tokens
RECURSIVE join(_, _)
join(parts, sep) ==
  IF parts = <<>> THEN <<>>
  ELSE IF Len(parts) = 1 THEN parts[1]
  ELSE parts[1] \o sep \o join(Tail(parts), sep)

\* words.slice(i, i + n), i counted from 0
slice(ws, i, n) ==
  SubSeq(ws, i + 1, IF i + n < Len(ws) THEN i + n ELSE Len(ws))

\* for (i = 0; i < words.length; i += n) lines.push(words.slice(i, i + n))
RECURSIVE chunks(_, _, _)
chunks(ws, i, n) ==
  IF i >= Len(ws) THEN <<>> ELSE <<slice(ws, i, n)>> \o chunks(ws, i + n, n)

\* '\\N' in the source: a backslash and an N, the ASS line break
BreakToken == <<"\\", "N">>

\* A wrap that joins the lines with a raw newline.
splitTextByWordsPerLineRaw(text, wordsPerLine) ==
  IF wordsPerLine <= 0 \/ Len(splitWords(text)) <= wordsPerLine THEN text
  ELSE join([k \in 1..Len(chunks(splitWords(text), 0, wordsPerLine)) |->
               join(chunks(splitWords(text), 0, wordsPerLine)[k], <<" ">>)],
            <<"\n">>)

splitTextByWordsPerLineASS(text, wordsPerLine) ==
  IF wordsPerLine <= 0 THEN text
  ELSE LET words == splitWords(text)
       IN IF Len(words) <= wordsPerLine THEN text
          ELSE join([k \in 1..Len(chunks(words, 0, wordsPerLine)) |->
                       join(chunks(words, 0, wordsPerLine)[k], <<" ">>)],
                    BreakToken)

(***************************************************************************)
(* Numbers to text                                                         *)
(***************************************************************************)
DigitChar(d) ==
  CASE d = 0 -> "0" [] d = 1 -> "1" [] d = 2 -> "2" [] d = 3 -> "3"
    [] d = 4 -> "4" [] d = 5 -> "5" [] d = 6 -> "6" [] d = 7 -> "7"
    [] d = 8 -> "8" [] d = 9 -> "9"

\* String(n) for a natural number n
RECURSIVE toString(_)
toString(n) ==
  IF n < 10 THEN <<DigitChar(n)>> ELSE toString(n \div 10) \o <<DigitChar(n % 10)>>

\* String(n).padStart(2, '0')
padStart2(n) == IF n < 10 THEN <<"0">> \o toString(n) ELSE toString(n)

(***************************************************************************)
(* Doubles.  A cue time arrives as a JSON number with at most three        *)
(* decimals and is held as the nearest double; the model holds the time as *)
(* the integer ms of milliseconds and, where the code floors a product,    *)
(* computes with the bits of that double: its integer part and the bits of *)
(* its fraction, most significant first.                                   *)
(***************************************************************************)
\* The number of significant bits of a double.
Precision == 53

\* The fraction of a double is held in Limbs limbs of LimbBits bits each,
\* most significant first: more places than any fraction here needs.
LimbBits == 16

Limbs == 4

RECURSIVE Pow2(_)
Pow2(n) == IF n = 0 THEN 1 ELSE 2 * Pow2(n - 1)

Limb == Pow2(LimbBits)

RECURSIVE BitLen(_)
BitLen(n) == IF n = 0 THEN 0 ELSE 1 + BitLen(n \div 2)

\* Bit k (counted from 1, the halves place) of a fraction.
BitAt(limbs, k) ==
  (limbs[(k - 1) \div LimbBits + 1] \div Pow2(LimbBits - 1 - ((k - 1) % LimbBits))) % 2

\* The zero bits that open a fraction that is not zero.
LeadingZeros(limbs) ==
  (CHOOSE k \in 1..(Limbs * LimbBits) :
     BitAt(limbs, k) = 1 /\ \A j \in 1..(k - 1) : BitAt(limbs, j) = 0) - 1

\* The first n limbs of the binary expansion of r/1000 (0 <= r < 1000), and
\* what is left: the expansion goes on with that of rem/1000.
RECURSIVE Expand(_, _)
Expand(r, n) ==
  IF n = 0 THEN [limbs |-> <<>>, rem |-> r]
  ELSE LET rest == Expand((r * Limb) % 1000, n - 1)
       IN [limbs |-> <<(r * Limb) \div 1000>> \o rest.limbs, rem |-> rest.rem]

\* u added to limb j, the carries running up to the integer part.
RECURSIVE AddAt(_, _, _)
AddAt(limbs, j, u) ==
  IF j = 0 THEN [carry |-> u, limbs |-> limbs]
  ELSE LET s == limbs[j] + u
       IN AddAt([limbs EXCEPT ![j] = s % Limb], j - 1, s \div Limb)

\* The limbs times m, from limb j up, the carries running up to the integer
\* part.
RECURSIVE MulFrom(_, _, _, _)
MulFrom(limbs, j, m, carry) ==
  IF j = 0 THEN [int |-> carry, limbs |-> limbs]
  ELSE LET p == limbs[j] * m + carry
       IN MulFrom([limbs EXCEPT ![j] = p % Limb], j - 1, m, p \div Limb)

\* Round to nearest, ties to even, at bit L of the fraction (L >= 1):
\* `sticky` tells that the exact value goes on beyond the limbs.
Round(whole, limbs, sticky, L) ==
  LET j == (L - 1) \div LimbBits + 1
      u == Pow2(LimbBits - 1 - ((L - 1) % LimbBits))
      half == BitAt(limbs, L + 1) = 1
      more == sticky \/ \E k \in (L + 2)..(Limbs * LimbBits) : BitAt(limbs, k) = 1
      odd == BitAt(limbs, L) = 1
      kept == [i \in 1..Limbs |->
                 IF i < j THEN limbs[i] ELSE IF i = j THEN (limbs[i] \div u) * u ELSE 0]
      sum == AddAt(kept, j, u)
  IN IF half /\ (more \/ odd) THEN [int |-> whole + sum.carry, limbs |-> sum.limbs]
     ELSE [int |-> whole, limbs |-> kept]

\* The bit of the fraction at which a value with this integer part and
\* fraction is rounded to a double.
LastBit(whole, limbs) ==
  IF whole > 0 THEN Precision - BitLen(whole) ELSE LeadingZeros(limbs) + Precision

\* JSON.parse of the number ms/1000: the nearest double, as its integer part
\* and the limbs of its fraction.
toDouble(ms) ==
  LET whole == ms \div 1000
      e == Expand(ms % 1000, Limbs)
  IN IF ms % 1000 = 0 THEN [int |-> whole, limbs |-> e.limbs]
     ELSE Round(whole, e.limbs, e.rem # 0, LastBit(whole, e.limbs))

\* Math.floor(frac * 100) for the fraction of a double: the exact product,
\* rounded to a double where it has more bits than one holds, then its
\* integer part.
floorTimes100(frac) ==
  LET product == MulFrom(frac, Limbs, 100, 0)
      zero == product.int = 0 /\ \A i \in 1..Limbs : product.limbs[i] = 0
  IN IF zero \/ LastBit(product.int, product.limbs) >= Limbs * LimbBits THEN product.int
     ELSE Round(product.int, product.limbs, FALSE,
                LastBit(product.int, product.limbs)).int

\* Helper to format time for ASS format (H:MM:SS.CC); the argument is the
\* cue time in milliseconds.  hours, minutes and secs floor quotients and
\* remainders of the double that are whole only when the time is; centisecs
\* floors the rounded product (seconds % 1) * 100.
formatASSTime(ms) ==
  LET seconds == toDouble(ms)
      hours == seconds.int \div 3600
      minutes == (seconds.int % 3600) \div 60
      secs == seconds.int % 60
      centisecs == floorTimes100(seconds.limbs)
  IN toString(hours) \o <<":">> \o padStart2(minutes) \o <<":">> \o padStart2(secs)
       \o <<".">> \o padStart2(centisecs)

(***************************************************************************)
(* Style resolution: the selected* defaults and the lookup tables of       *)
(* app.post('/api/add-subtitles')                                          *)
(***************************************************************************)
\* The function members every object literal inherits from Object.prototype:
\* a lookup `table[name]` with one of these names finds the inherited
\* function, which is truthy, so the `|| default` of the lookup is not taken.
Inherited ==
  {"constructor", "toString", "valueOf", "toLocaleString", "hasOwnProperty",
   "isPrototypeOf", "propertyIsEnumerable"}

\* The text a function interpolates to in a template string (its head).
NativeText == <<"f", "u", "n", "c", "t", "i", "o", "n">>

\* Stands for a numeric place that holds no number: an undefined property,
\* or a function where a number is expected (every comparison with a
\* number is then false, and the place interpolates to no numeral).
NoNumber == 0 - 1

selectedFont(body) == IF body.font = <<>> THEN <<"A", "r", "i", "a", "l">> ELSE body.font
selectedFontSize(body) == parseIntOr(body.fontSize, 24)
selectedColor(body) == OrDefault(body.color, "white")
selectedPosition(body) == OrDefault(body.position, "bottom-center")
selectedBgColor(body) == OrDefault(body.bgColor, "none")
selectedAnimation(body) == OrDefault(body.animation, "none")
selectedWordsPerLine(body) == parseIntOr(body.wordsPerLine, 0)
selectedOutlineColor(body) == OrDefault(body.outlineColor, "black")
selectedOutlineThickness(body) == parseIntOr(body.outlineThickness, 2)
selectedShadowColor(body) == OrDefault(body.shadowColor, "black")
selectedShadowDepth(body) == parseIntOr(body.shadowDepth, 1)

\* colors[name] || colors.white  (&HBBGGRR&, as characters)
colors(name) ==
  CASE name = "white" -> <<"&", "H", "F", "F", "F", "F", "F", "F", "&">>
    [] name = "yellow" -> <<"&", "H", "0", "0", "F", "F", "F", "F", "&">>
    [] name = "cyan" -> <<"&", "H", "F", "F", "F", "F", "0", "0", "&">>
    [] name = "red" -> <<"&", "H", "0", "0", "0", "0", "F", "F", "&">>
    [] name = "green" -> <<"&", "H", "0", "0", "F", "F", "0", "0", "&">>
    [] name = "blue" -> <<"&", "H", "F", "F", "0", "0", "0", "0", "&">>
    [] name = "purple" -> <<"&", "H", "F", "F", "0", "0", "F", "F", "&">>
    [] name = "orange" -> <<"&", "H", "0", "0", "8", "0", "F", "F", "&">>
    [] name = "pink" -> <<"&", "H", "F", "F", "8", "0", "F", "F", "&">>
    [] name = "gold" -> <<"&", "H", "0", "0", "D", "7", "F", "F", "&">>
    [] name = "silver" -> <<"&", "H", "C", "0", "C", "0", "C", "0", "&">>
    [] name = "rainbow" -> <<"&", "H", "F", "F", "0", "0", "F", "F", "&">>
    [] name \in Inherited -> NativeText
    [] OTHER -> <<"&", "H", "F", "F", "F", "F", "F", "F", "&">>

textColor(body) == colors(selectedColor(body))

\* A table that resolves every name to the bottom-center entry.
positionsBottomCenter(name) == [Alignment |-> 2, MarginV |-> 30, MarginL |-> 0, MarginR |-> 0]

\* positions[name] || positions['bottom-center']
positions(name) ==
  CASE name = "bottom-left" -> [Alignment |-> 1, MarginV |-> 30, MarginL |-> 30, MarginR |-> 0]
    [] name = "bottom-center" -> [Alignment |-> 2, MarginV |-> 30, MarginL |-> 0, MarginR |-> 0]
    [] name = "bottom-right" -> [Alignment |-> 3, MarginV |-> 30, MarginL |-> 0, MarginR |-> 30]
    [] name = "middle-left" -> [Alignment |-> 4, MarginV |-> 0, MarginL |-> 30, MarginR |-> 0]
    [] name = "middle-center" -> [Alignment |-> 5, MarginV |-> 0, MarginL |-> 0, MarginR |-> 0]
    [] name = "middle-right" -> [Alignment |-> 6, MarginV |-> 0, MarginL |-> 0, MarginR |-> 30]
    [] name = "top-left" -> [Alignment |-> 7, MarginV |-> 30, MarginL |-> 30, MarginR |-> 0]
    [] name = "top-center" -> [Alignment |-> 8, MarginV |-> 30, MarginL |-> 0, MarginR |-> 0]
    [] name = "top-right" -> [Alignment |-> 9, MarginV |-> 30, MarginL |-> 0, MarginR |-> 30]
    [] name \in Inherited ->
         [Alignment |-> NoNumber, MarginV |-> NoNumber, MarginL |-> NoNumber,
          MarginR |-> NoNumber]
    [] OTHER -> [Alignment |-> 2, MarginV |-> 30, MarginL |-> 0, MarginR |-> 0]

positionSettings(body) == positions(selectedPosition(body))

\* The force_style table `styles` and styles[style] || styles.classic: the
\* BorderStyle, Outline, Shadow and Weight each preset's string carries.
\* The handler only logs the selected entry ('Final FFmpeg style:').
styles(preset, bg) ==
  LET box == bg # "none" IN
  CASE preset = "modern" ->
         [Weight |-> 700, BorderStyle |-> IF box THEN 4 ELSE 3,
          Outline |-> IF box THEN 0 ELSE 3, Shadow |-> 0]
    [] preset = "minimal" ->
         [Weight |-> 400, BorderStyle |-> IF box THEN 4 ELSE 1,
          Outline |-> IF box THEN 0 ELSE 1, Shadow |-> IF box THEN 0 ELSE 2]
    [] preset = "bold" ->
         [Weight |-> 900, BorderStyle |-> IF box THEN 4 ELSE 3,
          Outline |-> IF box THEN 0 ELSE 4, Shadow |-> 0]
    [] preset = "neon" ->
         [Weight |-> 700, BorderStyle |-> IF box THEN 4 ELSE 3,
          Outline |-> IF box THEN 0 ELSE 2, Shadow |-> IF box THEN 0 ELSE 3]
    [] preset = "boxed" ->
         [Weight |-> 400, BorderStyle |-> 4, Outline |-> 0, Shadow |-> 0]
    [] preset \in Inherited ->
         [Weight |-> NoNumber, BorderStyle |-> NoNumber, Outline |-> NoNumber,
          Shadow |-> NoNumber]
    [] OTHER ->
         [Weight |-> 400, BorderStyle |-> IF box THEN 4 ELSE 3,
          Outline |-> IF box THEN 0 ELSE 2, Shadow |-> IF box THEN 0 ELSE 1]

selectedStyle(body) == styles(body.style, selectedBgColor(body))

(***************************************************************************)
(* Track Document Compiler: generateASSContent                             *)
(***************************************************************************)
\* { modern: 700, bold: 900, neon: 700 }[style] || 400
fontWeight(style) ==
  CASE style = "modern" -> 700 [] style = "bold" -> 900 [] style = "neon" -> 700
    [] style \in Inherited -> NoNumber
    [] OTHER -> 400

\* An outline width that ignores the background.
outlineSizeAlways(bg, thickness) == thickness

outlineSize(bg, thickness) == IF bg # "none" THEN 0 ELSE thickness

shadowSize(bg, depth) == IF bg # "none" THEN 0 ELSE depth

\* selectedBgColor !== 'none' ? 4 : ({ minimal: 1, boxed: 4 }[style] || 3)
borderStyle(bg, style) ==
  IF bg # "none" THEN 4
  ELSE CASE style = "minimal" -> 1 [] style = "boxed" -> 4
         [] style \in Inherited -> NoNumber [] OTHER -> 3

\* outlineColors[selectedOutlineColor] || '&H00000000'
outlineColors(name) ==
  CASE name = "none" -> "&H00000000"
    [] name = "black" -> "&H00000000"
    [] name = "white" -> "&H00FFFFFF"
    [] name = "red" -> "&H000000FF"
    [] name = "blue" -> "&H00FF0000"
    [] name = "green" -> "&H0000FF00"
    [] name = "yellow" -> "&H0000FFFF"
    [] name = "purple" -> "&H00FF44AA"
    [] name \in Inherited -> "function"
    [] OTHER -> "&H00000000"

\* shadowColors[selectedShadowColor] || '&H80000000'
shadowColors(name) ==
  CASE name = "none" -> "&H00000000"
    [] name = "black" -> "&H80000000"
    [] name = "white" -> "&H80FFFFFF"
    [] name = "red" -> "&H800000FF"
    [] name = "blue" -> "&H80FF0000"
    [] name \in Inherited -> "function"
    [] OTHER -> "&H80000000"

\* assBackColors[selectedBgColor] || '&H00000000'
assBackColors(name) ==
  CASE name = "none" -> "&H00000000"
    [] name = "black" -> "&H80000000"
    [] name = "solid-black" -> "&HFF000000"
    [] name = "white" -> "&H80FFFFFF"
    [] name = "solid-white" -> "&HFFFFFFFF"
    [] name = "gray" -> "&H80808080"
    [] name = "dark-gray" -> "&H80404040"
    [] name = "blue" -> "&H80FF0000"
    [] name = "red" -> "&H800000FF"
    [] name = "green" -> "&H8000FF00"
    [] name = "yellow" -> "&H8000FFFF"
    [] name = "purple" -> "&H80FF00FF"
    [] name \in Inherited -> "function"
    [] OTHER -> "&H00000000"

backColor(body) ==
  IF selectedBgColor(body) # "none" THEN assBackColors(selectedBgColor(body))
  ELSE shadowColors(selectedShadowColor(body))

\* The `Style: Default,...` line, field by field.
StyleLine(body) ==
  [Fontname |-> selectedFont(body),
   Fontsize |-> selectedFontSize(body),
   PrimaryColour |-> textColor(body),
   OutlineColour |-> outlineColors(selectedOutlineColor(body)),
   BackColour |-> backColor(body),
   Bold |-> IF fontWeight(body.style) >= 700 THEN 0 - 1 ELSE 0,
   BorderStyle |-> borderStyle(selectedBgColor(body), body.style),
   Outline |-> outlineSize(selectedBgColor(body), selectedOutlineThickness(body)),
   Shadow |-> shadowSize(selectedBgColor(body), selectedShadowDepth(body)),
   Alignment |-> positionSettings(body).Alignment,
   MarginL |-> positionSettings(body).MarginL,
   MarginR |-> positionSettings(body).MarginR,
   MarginV |-> positionSettings(body).MarginV]

\* One `Dialogue:` line per cue, in input order.
DialogueLine(sub) ==
  [Start |-> formatASSTime(sub.startTime), End |-> formatASSTime(sub.endTime),
   Text |-> sub.text]

\* A compiler that stamps the document with the clock.
generateASSContentStamped(body, subtitleData) ==
  [style |-> [StyleLine(body) EXCEPT !.Fontname = @ \o toString(now)],
   events |-> [k \in 1..Len(subtitleData) |-> DialogueLine(subtitleData[k])]]

generateASSContent(body, subtitleData) ==
  [style |-> StyleLine(body),
   events |-> [k \in 1..Len(subtitleData) |-> DialogueLine(subtitleData[k])]]

\* The words-per-line pre-wrap, applied only when the animation is 'none'.
preWrap(body, subtitleData) ==
  IF selectedWordsPerLine(body) > 0 /\ selectedAnimation(body) = "none"
  THEN [k \in 1..Len(subtitleData) |->
          [subtitleData[k] EXCEPT
             !.text = splitTextByWordsPerLineASS(@, selectedWordsPerLine(body))]]
  ELSE subtitleData

(***************************************************************************)
(* Color/coordinate utilities and the Timing Deriver                       *)
(***************************************************************************)
RECURSIVE GCD(_, _)
GCD(a, b) == IF b = 0 THEN a ELSE GCD(b, a % b)

\* The exact value n/d (d > 0) in lowest terms: the source computes in
\* doubles, the model in rationals.
Rat(n, d) ==
  LET g == GCD(IF n < 0 THEN 0 - n ELSE n, d) IN [n |-> n \div g, d |-> d \div g]

HexDigits == Digits \cup {"A", "B", "C", "D", "E", "F", "a", "b", "c", "d", "e", "f"}

HexVal(c) ==
  CASE c \in Digits -> DigitVal(c)
    [] c \in {"A", "a"} -> 10 [] c \in {"B", "b"} -> 11 [] c \in {"C", "c"} -> 12
    [] c \in {"D", "d"} -> 13 [] c \in {"E", "e"} -> 14 [] c \in {"F", "f"} -> 15

HexChar(d) ==
  CASE d < 10 -> DigitChar(d)
    [] d = 10 -> "a" [] d = 11 -> "b" [] d = 12 -> "c"
    [] d = 13 -> "d" [] d = 14 -> "e" [] d = 15 -> "f"

\* s.replace(pat, ''): the first occurrence of pat removed
RECURSIVE removeFirst(_, _)
removeFirst(s, pat) ==
  IF Len(s) < Len(pat) THEN s
  ELSE IF SubSeq(s, 1, Len(pat)) = pat THEN SubSeq(s, Len(pat) + 1, Len(s))
  ELSE <<Head(s)>> \o removeFirst(Tail(s), pat)

\* s.substr(from, 2), from counted from 0
substr2(s, from) ==
  SubSeq(s, from + 1, IF from + 2 < Len(s) THEN from + 2 ELSE Len(s))

\* parseInt(s, 16) of at most two characters; -1 stands for NaN
parseHex(s) ==
  IF s = <<>> \/ Head(s) \notin HexDigits THEN 0 - 1
  ELSE IF Len(s) < 2 \/ s[2] \notin HexDigits THEN HexVal(s[1])
  ELSE 16 * HexVal(s[1]) + HexVal(s[2])

\* v.toString(16).padStart(2, '0')
toHex2(v) ==
  IF v < 0 THEN <<"N", "a", "N">> ELSE <<HexChar(v \div 16), HexChar(v % 16)>>

\* A conversion that keeps the bytes in the order of the token.
convertBGRtoHexInOrder(bgrColor) ==
  LET colorHex == removeFirst(removeFirst(bgrColor, <<"&", "H">>), <<"&">>)
  IN <<"0", "x">> \o toHex2(parseHex(substr2(colorHex, 0)))
       \o toHex2(parseHex(substr2(colorHex, 2))) \o toHex2(parseHex(substr2(colorHex, 4)))

convertBGRtoHex(bgrColor) ==
  LET colorHex == removeFirst(removeFirst(bgrColor, <<"&", "H">>), <<"&">>)
      b == parseHex(substr2(colorHex, 0))
      g == parseHex(substr2(colorHex, 2))
      r == parseHex(substr2(colorHex, 4))
  IN <<"0", "x">> \o toHex2(r) \o toHex2(g) \o toHex2(b)

\* A timing deriver without the 5% buffers: the cue divided evenly.
calculateWordTimingsNoBuffer(subtitle) ==
  LET words == splitWords(subtitle.text)
      N == Len(words)
      duration == subtitle.endTime - subtitle.startTime
  IN [k \in 1..N |->
        [word |-> words[k],
         start |-> Rat(N * subtitle.startTime + (k - 1) * duration, N),
         end |-> Rat(N * subtitle.startTime + k * duration, N)]]

\* A timing deriver that always spreads the words of the text evenly.
calculateWordTimingsSynthesized(subtitle) ==
  LET words == splitWords(subtitle.text)
      N == Len(words)
      duration == subtitle.endTime - subtitle.startTime
  IN [k \in 1..N |->
        [word |-> words[k],
         start |-> Rat(20 * N * subtitle.startTime + N * duration
                         + 18 * (k - 1) * duration, 20 * N),
         end |-> Rat(20 * N * subtitle.startTime + N * duration
                       + 18 * k * duration, 20 * N)]]

calculateWordTimings(subtitle) ==
  LET words == splitWords(subtitle.text)
      N == Len(words)
      duration == subtitle.endTime - subtitle.startTime
  IN IF N = 0 THEN <<>>
     ELSE IF Len(subtitle.wordTimings) > 0
     THEN [k \in 1..Len(subtitle.wordTimings) |->
             [word |-> subtitle.wordTimings[k].word,
              start |-> Rat(subtitle.wordTimings[k].start, 1),
              end |-> Rat(subtitle.wordTimings[k].end, 1)]]
     ELSE \* buffer = duration/20, wordDuration = (duration - 2*buffer)/N
          [k \in 1..N |->
             [word |-> words[k],
              start |-> Rat(20 * N * subtitle.startTime + N * duration
                              + 18 * (k - 1) * duration, 20 * N),
              end |-> Rat(20 * N * subtitle.startTime + N * duration
                            + 18 * k * duration, 20 * N)]]

\* Math.round(q) for q = n/d, d > 0
round(n, d) == (2 * n + d) \div (2 * d)

\* x accumulated over the first k words, in hundredths of a pixel:
\* charWidth = 0.52 * fontSize, spaceWidth = 0.5 * fontSize
RECURSIVE xAfter(_, _, _)
xAfter(words, k, fontSize) ==
  IF k = 0 THEN 0
  ELSE xAfter(words, k - 1, fontSize) + Len(words[k]) * 52 * fontSize + 50 * fontSize

calculateWordPositions(words, fontSize) ==
  [positions |-> [k \in 1..Len(words) |->
                    [word |-> words[k], xOffset |-> round(xAfter(words, k - 1, fontSize), 100)]],
   totalWidth |->
     LET tw == round(xAfter(words, Len(words), fontSize) - 50 * fontSize, 100)
     IN IF tw < 1 THEN 1 ELSE tw]

\* word.replace(/'/g, "\\'").replace(/:/g, "\\:")
RECURSIVE escapeQuoteColon(_)
escapeQuoteColon(s) ==
  IF s = <<>> THEN <<>>
  ELSE (IF Head(s) \in {"'", ":"} THEN <<"\\", Head(s)>> ELSE <<Head(s)>>)
         \o escapeQuoteColon(Tail(s))

\* Helper function to escape path for FFmpeg subtitles filter
RECURSIVE escapeFFmpegPath(_)
escapeFFmpegPath(filePath) ==
  IF filePath = <<>> THEN <<>>
  ELSE (CASE Head(filePath) = "\\" -> <<"\\", "\\", "\\", "\\">>
          [] Head(filePath) \in {":", "'", "[", "]"} -> <<"\\", Head(filePath)>>
          [] OTHER -> <<Head(filePath)>>)
         \o escapeFFmpegPath(Tail(filePath))

\* position.includes('top') / position.includes('middle'), over the position
\* names the model supplies
anchorOf(position) ==
  IF position \in {"top-left", "top-center", "top-right"} THEN "top"
  ELSE IF position \in {"middle-left", "middle-center", "middle-right"} THEN "middle"
  ELSE "bottom"

\* baseY and the per-line offset: top -> 50 + yOffset, middle ->
\* (h-total)/2 + yOffset, otherwise h-total-50 + yOffset
yExpr(position, total, yOffset) ==
  [anchor |-> anchorOf(position), total |-> total, yOffset |-> yOffset]

CenterX == [kind |-> "center", totalWidth |-> 0, xOffset |-> 0]

WordX(totalWidth, xOffset) == [kind |-> "word", totalWidth |-> totalWidth, xOffset |-> xOffset]

\* What a drawtext command carries besides text, font, color, place and
\* window: the box style (bgColorMap), the highlight box color, and the
\* numbers its alpha expression is built from.
NoExtra == [box |-> "", boxcolor |-> <<>>, param |-> 0, speed |-> 0]

\* One drawtext command.
drawtext(role, text, font, fontsize, fontcolor, x, y, extra, from, to) ==
  [cmd |-> "drawtext", role |-> role, text |-> text, font |-> font,
   fontsize |-> fontsize, fontcolor |-> fontcolor, x |-> x, y |-> y,
   extra |-> extra, enable |-> <<from, to>>]

RECURSIVE flatten(_)
flatten(seqs) == IF seqs = <<>> THEN <<>> ELSE Head(seqs) \o flatten(Tail(seqs))

(***************************************************************************)
(* Animated Overlay Compiler, per-word families                            *)
(***************************************************************************)
\* The line grouping shared by the per-word families: `lines`/`lineTimings`
\* are both cut from the timing list, effectiveWPL entries per line.
\* A grouping that keeps all the words on one line.
lineTimingsSingle(timings, wordsPerLine) == <<timings>>

lineTimings(timings, wordsPerLine) ==
  chunks(timings, 0, IF wordsPerLine > 0 THEN wordsPerLine ELSE Len(timings))

\* The commands of one per-word family: perLine(lineWords, x, y) gives the
\* commands of one line, x[i] being word i's x expression.
wordFamily(subtitle, position, fontSize, wordsPerLine, factor10, perLine(_, _, _)) ==
  LET timings == calculateWordTimings(subtitle)
      lineHeight == round(fontSize * factor10, 10)
      lt == lineTimings(timings, wordsPerLine)
      totalBlockHeight == Len(lt) * lineHeight
      lineCmds(k) ==
        LET ws == [i \in 1..Len(lt[k]) |-> lt[k][i].word]
            pos == calculateWordPositions(ws, fontSize)
        IN perLine(lt[k],
                   [i \in 1..Len(ws) |-> WordX(pos.totalWidth, pos.positions[i].xOffset)],
                   yExpr(position, totalBlockHeight, (k - 1) * lineHeight))
  IN IF Len(timings) = 0 THEN <<>>
     ELSE flatten([k \in 1..Len(lt) |-> lineCmds(k)])

createWordHighlightFilter(subtitle, font, baseColor, highlightColor, position, bgColor, fontSize, wordsPerLine) ==
  LET S == Rat(subtitle.startTime, 1)
      E == Rat(subtitle.endTime, 1)
      f == escapeQuoteColon(font)
      perLine(ts, x, y) ==
        [i \in 1..Len(ts) |->
           drawtext("base", escapeQuoteColon(ts[i].word), f, fontSize, baseColor,
                    x[i], y, NoExtra, S, E)]
        \o [i \in 1..Len(ts) |->
              drawtext("highlight", escapeQuoteColon(ts[i].word), f, fontSize, baseColor,
                       x[i], y, [NoExtra EXCEPT !.boxcolor = highlightColor], ts[i].start, ts[i].end)]
  IN wordFamily(subtitle, position, fontSize, wordsPerLine, 13, perLine)

\* A word-fill family that draws the filled layer first, under the base
\* layer.
createWordFillFilterFillFirst(subtitle, font, baseColor, fillColor, position, bgColor, fontSize, wordsPerLine) ==
  LET S == Rat(subtitle.startTime, 1)
      E == Rat(subtitle.endTime, 1)
      f == escapeQuoteColon(font)
      perLine(ts, x, y) ==
        flatten([i \in 1..Len(ts) |->
           << drawtext("fill", escapeQuoteColon(ts[i].word), f, fontSize, fillColor,
                       x[i], y, NoExtra, ts[i].start, E),
              drawtext("base", escapeQuoteColon(ts[i].word), f, fontSize, baseColor,
                       x[i], y, NoExtra, S, ts[i].start) >>])
  IN wordFamily(subtitle, position, fontSize, wordsPerLine, 12, perLine)

createWordFillFilter(subtitle, font, baseColor, fillColor, position, bgColor, fontSize, wordsPerLine) ==
  LET S == Rat(subtitle.startTime, 1)
      E == Rat(subtitle.endTime, 1)
      f == escapeQuoteColon(font)
      perLine(ts, x, y) ==
        flatten([i \in 1..Len(ts) |->
           << drawtext("base", escapeQuoteColon(ts[i].word), f, fontSize, baseColor,
                       x[i], y, NoExtra, S, ts[i].start),
              drawtext("fill", escapeQuoteColon(ts[i].word), f, fontSize, fillColor,
                       x[i], y, NoExtra, ts[i].start, E) >>])
  IN wordFamily(subtitle, position, fontSize, wordsPerLine, 12, perLine)

\* A word-color family that draws the highlighted layer first, under the
\* two base layers.
createWordColorFilterDuringFirst(subtitle, font, baseColor, highlightColor, position, bgColor, fontSize, wordsPerLine) ==
  LET S == Rat(subtitle.startTime, 1)
      E == Rat(subtitle.endTime, 1)
      f == escapeQuoteColon(font)
      perLine(ts, x, y) ==
        flatten([i \in 1..Len(ts) |->
           << drawtext("during", escapeQuoteColon(ts[i].word), f, fontSize, highlightColor,
                       x[i], y, NoExtra, ts[i].start, ts[i].end),
              drawtext("before", escapeQuoteColon(ts[i].word), f, fontSize, baseColor,
                       x[i], y, NoExtra, S, ts[i].start),
              drawtext("after", escapeQuoteColon(ts[i].word), f, fontSize, baseColor,
                       x[i], y, NoExtra, ts[i].end, E) >>])
  IN wordFamily(subtitle, position, fontSize, wordsPerLine, 13, perLine)

createWordColorFilter(subtitle, font, baseColor, highlightColor, position, bgColor, fontSize, wordsPerLine) ==
  LET S == Rat(subtitle.startTime, 1)
      E == Rat(subtitle.endTime, 1)
      f == escapeQuoteColon(font)
      perLine(ts, x, y) ==
        flatten([i \in 1..Len(ts) |->
           << drawtext("before", escapeQuoteColon(ts[i].word), f, fontSize, baseColor,
                       x[i], y, NoExtra, S, ts[i].start),
              drawtext("after", escapeQuoteColon(ts[i].word), f, fontSize, baseColor,
                       x[i], y, NoExtra, ts[i].end, E),
              drawtext("during", escapeQuoteColon(ts[i].word), f, fontSize, highlightColor,
                       x[i], y, NoExtra, ts[i].start, ts[i].end) >>])
  IN wordFamily(subtitle, position, fontSize, wordsPerLine, 13, perLine)

\* A reveal whose words disappear again when their own time ends.
createWordRevealFilterWordEnd(subtitle, font, color, position, bgColor, fontSize, wordsPerLine) ==
  LET f == escapeQuoteColon(font)
      perLine(ts, x, y) ==
        [i \in 1..Len(ts) |->
           drawtext("reveal", escapeQuoteColon(ts[i].word), f, fontSize, color,
                    x[i], y, NoExtra, ts[i].start, ts[i].end)]
  IN wordFamily(subtitle, position, fontSize, wordsPerLine, 13, perLine)

createWordRevealFilter(subtitle, font, color, position, bgColor, fontSize, wordsPerLine) ==
  LET E == Rat(subtitle.endTime, 1)
      f == escapeQuoteColon(font)
      perLine(ts, x, y) ==
        [i \in 1..Len(ts) |->
           drawtext("reveal", escapeQuoteColon(ts[i].word), f, fontSize, color,
                    x[i], y, NoExtra, ts[i].start, E)]
  IN wordFamily(subtitle, position, fontSize, wordsPerLine, 13, perLine)

createStrokeFilter(subtitle, font, baseColor, fillColor, position, bgColor, fontSize, wordsPerLine) ==
  LET S == Rat(subtitle.startTime, 1)
      E == Rat(subtitle.endTime, 1)
      f == escapeQuoteColon(font)
      perLine(ts, x, y) ==
        flatten([i \in 1..Len(ts) |->
           << drawtext("outline", escapeQuoteColon(ts[i].word), f, fontSize, baseColor,
                       x[i], y, NoExtra, S, ts[i].start),
              drawtext("fill", escapeQuoteColon(ts[i].word), f, fontSize, fillColor,
                       x[i], y, NoExtra, ts[i].start, E) >>])
  IN wordFamily(subtitle, position, fontSize, wordsPerLine, 13, perLine)

(***************************************************************************)
(* Animated Overlay Compiler, whole-line families                          *)
(***************************************************************************)
\* let lines = [text]; if (wordsPerLine > 0) lines = the word chunks joined by ' '
textLines(text, wordsPerLine) ==
  IF wordsPerLine > 0
  THEN LET cs == chunks(splitWords(text), 0, wordsPerLine)
       IN [k \in 1..Len(cs) |-> join(cs[k], <<" ">>)]
  ELSE <<text>>

\* The commands of one whole-line family: perLine(line, y) gives one line's.
lineFamily(subtitle, position, fontSize, wordsPerLine, perLine(_, _)) ==
  LET lines == textLines(subtitle.text, wordsPerLine)
      lineHeight == round(fontSize * 13, 10)
      totalHeight == Len(lines) * lineHeight
  IN flatten([k \in 1..Len(lines) |->
                perLine(lines[k], yExpr(position, totalHeight, (k - 1) * lineHeight))])

fireColors == <<<<"0", "x", "f", "f", "4", "5", "0", "0">>, <<"0", "x", "f", "f", "6", "6", "0", "0">>, <<"0", "x", "f", "f", "c", "c", "0", "0">>, <<"0", "x", "f", "f", "8", "c", "0", "0">>, <<"0", "x", "f", "f", "0", "0", "0", "0">>>>

iceColors == <<<<"0", "x", "f", "f", "f", "f", "f", "f">>, <<"0", "x", "8", "7", "c", "e", "e", "b">>, <<"0", "x", "0", "0", "b", "f", "f", "f">>, <<"0", "x", "b", "0", "e", "0", "e", "6">>, <<"0", "x", "0", "0", "f", "f", "f", "f">>>>

\* A palette family: per line, one layer per palette color (opaque while
\* mod(t - startTime + k*speed, 5*speed) < speed) and a constant base layer.
\* `param` holds the layer's colorIndex, `speed` the speed in milliseconds.
paletteFilter(subtitle, font, position, fontSize, wordsPerLine, palette, speed, glow) ==
  LET S == Rat(subtitle.startTime, 1)
      E == Rat(subtitle.endTime, 1)
      f == escapeQuoteColon(font)
      perLine(line, y) ==
        [k \in 1..Len(palette) |->
           drawtext("palette", escapeQuoteColon(line), f, fontSize, palette[k],
                    CenterX, y, [NoExtra EXCEPT !.param = k - 1, !.speed = speed], S, E)]
        \o << drawtext("glow", escapeQuoteColon(line), f, fontSize, glow,
                       CenterX, y, [NoExtra EXCEPT !.speed = speed], S, E) >>
  IN lineFamily(subtitle, position, fontSize, wordsPerLine, perLine)

\* Layers that all start their cycle together.
flickerAlphaAtTogether(cmd, t) ==
  IF cmd.role = "glow" THEN Rat(3, 10)
  ELSE IF (t - cmd.enable[1].n) % (5 * cmd.extra.speed) < cmd.extra.speed
  THEN Rat(1, 1) ELSE Rat(0, 1)

\* The opacity of a command of a palette family at time t (in
\* milliseconds): a palette layer has
\* alpha='if(lt(mod(t-startTime+offset,cycleDuration),flickerSpeed),1,0)'
\* with offset = colorIndex * flickerSpeed and cycleDuration = 5 *
\* flickerSpeed, the base layer alpha=0.3.  The commands of these families
\* start at whole milliseconds.
flickerAlphaAt(cmd, t) ==
  IF cmd.role = "glow" THEN Rat(3, 10)
  ELSE IF (t - cmd.enable[1].n + cmd.extra.param * cmd.extra.speed) % (5 * cmd.extra.speed)
            < cmd.extra.speed
  THEN Rat(1, 1) ELSE Rat(0, 1)

createFireTextFilter(subtitle, font, position, fontSize, wordsPerLine) ==
  paletteFilter(subtitle, font, position, fontSize, wordsPerLine, fireColors, 150, <<"0", "x", "f", "f", "6", "6", "0", "0">>)

createIceTextFilter(subtitle, font, position, fontSize, wordsPerLine) ==
  paletteFilter(subtitle, font, position, fontSize, wordsPerLine, iceColors, 120, <<"0", "x", "8", "7", "c", "e", "e", "b">>)

createGlitchFilter(subtitle, font, position, fontSize, wordsPerLine) ==
  LET S == Rat(subtitle.startTime, 1)
      E == Rat(subtitle.endTime, 1)
      f == escapeQuoteColon(font)
      layer(role, color, line, y) ==
        drawtext(role, escapeQuoteColon(line), f, fontSize, color, CenterX, y, NoExtra, S, E)
      perLine(line, y) ==
        << layer("red", <<"0", "x", "f", "f", "0", "0", "0", "0">>, line, y), layer("green", <<"0", "x", "0", "0", "f", "f", "0", "0">>, line, y),
           layer("blue", <<"0", "x", "0", "0", "0", "0", "f", "f">>, line, y), layer("main", <<"0", "x", "f", "f", "f", "f", "f", "f">>, line, y),
           layer("flash", <<"0", "x", "0", "0", "f", "f", "f", "f">>, line, y) >>
  IN lineFamily(subtitle, position, fontSize, wordsPerLine, perLine)

\* bgColorMap[bgColor] || '' : the box color and opacity, '' for no box
bgColorMap(bgColor) ==
  CASE bgColor = "black" -> "black@0.5"
    [] bgColor = "solid-black" -> "black@1"
    [] bgColor = "white" -> "white@0.5"
    [] bgColor = "solid-white" -> "white@1"
    [] bgColor = "gray" -> "gray@0.5"
    [] bgColor = "dark-gray" -> "0x404040@0.5"
    [] bgColor = "blue" -> "blue@0.5"
    [] bgColor = "red" -> "red@0.5"
    [] bgColor = "green" -> "green@0.5"
    [] bgColor = "yellow" -> "yellow@0.5"
    [] bgColor = "purple" -> "purple@0.5"
    [] bgColor \in Inherited -> "function"
    [] OTHER -> ""

\* The animations createAnimationFilter's switch has a case for.
SwitchCases == {"fade-in", "slide-up", "slide-left", "bounce", "typewriter"}

\* Helper function to create animation filters with multi-line support: one
\* command per line when the switch has a case for the animation, none
\* otherwise (the function then returns null).  `param` holds typewriter's
\* typeDuration = min(0.8*duration, max(0.5 s, 0.08 s * line.length)), in
\* fifths of a millisecond.
createAnimationFilter(subtitle, font, color, position, bgColor, animation, fontSize, wordsPerLine) ==
  LET S == Rat(subtitle.startTime, 1)
      E == Rat(subtitle.endTime, 1)
      duration == subtitle.endTime - subtitle.startTime
      f == escapeQuoteColon(font)
      typeDuration(line) ==
        LET m == IF 2500 > 400 * Len(line) THEN 2500 ELSE 400 * Len(line)
        IN IF 4 * duration < m THEN 4 * duration ELSE m
      perLine(line, y) ==
        IF animation \in SwitchCases
        THEN << drawtext(animation, escapeQuoteColon(line), f, fontSize,
                         convertBGRtoHex(color), CenterX, y,
                         [NoExtra EXCEPT
                            !.box = bgColorMap(bgColor),
                            !.param = IF animation = "typewriter"
                                      THEN typeDuration(line) ELSE 0],
                         S, E) >>
        ELSE <<>>
  IN lineFamily(subtitle, position, fontSize, wordsPerLine, perLine)

\* enable='between(t,from,to)': the command is drawn at time t (in
\* milliseconds) when from <= t <= to.
enabledAt(cmd, t) ==
  /\ cmd.enable[1].n <= t * cmd.enable[1].d
  /\ t * cmd.enable[2].d <= cmd.enable[2].n

\* An opacity that jumps from 0 to 1 half a second after the start.
alphaStep(cmd, t) ==
  IF (t * cmd.enable[1].d - cmd.enable[1].n) < 500 * cmd.enable[1].d THEN Rat(0, 1) ELSE Rat(1, 1)

\* alpha='if(lt(t-${startTime},0.5),(t-${startTime})/0.5,1)' of a fade-in
\* command at time t (in milliseconds); ${startTime} is the value the
\* window of the command starts at.
alphaAt(cmd, t) ==
  LET S == cmd.enable[1]
      elapsed == Rat(t * S.d - S.n, S.d)
  IN IF elapsed.n < 500 * elapsed.d THEN Rat(elapsed.n, 500 * elapsed.d) ELSE Rat(1, 1)

(***************************************************************************)
(* Scratch files                                                           *)
(***************************************************************************)
\* The directory the server runs in (path.resolve prefixes it).
Cwd == <<"/", "s", "r", "v", "/", "a", "p", "p">>

NoPath == [dir |-> <<>>, name |-> <<>>]

\* multer: destination 'uploads/', filename Date.now() + path.extname(originalname)
uploadPath(ts, ext) == [dir |-> <<"u", "p", "l", "o", "a", "d", "s">>, name |-> toString(ts) \o ext]

\* path.join('outputs', `output-${Date.now()}.mp4`)
outputPathAt(ts) == [dir |-> <<"o", "u", "t", "p", "u", "t", "s">>, name |-> <<"o", "u", "t", "p", "u", "t", "-">> \o toString(ts) \o <<".", "m", "p", "4">>]

\* path.resolve('uploads', `subtitles-${Date.now()}.ass`)
subtitlePathAt(ts) == [dir |-> <<"u", "p", "l", "o", "a", "d", "s">>, name |-> <<"s", "u", "b", "t", "i", "t", "l", "e", "s", "-">> \o toString(ts) \o <<".", "a", "s", "s">>]

\* path.join('uploads', `audio-${Date.now()}.mp3`)
audioPathAt(ts) == [dir |-> <<"u", "p", "l", "o", "a", "d", "s">>, name |-> <<"a", "u", "d", "i", "o", "-">> \o toString(ts) \o <<".", "m", "p", "3">>]

absolute(p) == Cwd \o <<"/">> \o p.dir \o <<"/">> \o p.name

\* fs.writeFileSync / a file an engine run leaves behind
writeFile(fs, p, content) ==
  [q \in DOMAIN fs \cup {p} |-> IF q = p THEN content ELSE fs[q]]

\* if (fs.existsSync(p)) fs.unlinkSync(p)
unlinkIfExists(fs, p) == [q \in DOMAIN fs \ {p} |-> fs[q]]

\* A clean-up that forgets the subtitle document.
cleanupAddVideoOnly(fs, videoPath, subtitlePath) == unlinkIfExists(fs, videoPath)

\* The clean-up of the engine's end and error handlers of /api/add-subtitles.
cleanupAdd(fs, videoPath, subtitlePath) ==
  unlinkIfExists(unlinkIfExists(fs, videoPath), subtitlePath)

\* The clean-up of /api/transcribe once the transcription is received.
cleanupTranscribe(fs, videoPath, audioPath) ==
  unlinkIfExists(unlinkIfExists(fs, videoPath), audioPath)

(***************************************************************************)
(* Upload filter                                                           *)
(***************************************************************************)
RECURSIVE contains(_, _)
contains(s, pat) ==
  IF Len(s) < Len(pat) THEN FALSE
  ELSE SubSeq(s, 1, Len(pat)) = pat \/ contains(Tail(s), pat)

\* /mp4|avi|mov|mkv|quicktime|x-msvideo|x-matroska/.test(s)
allowedTypes(s) ==
  \E pat \in {<<"m", "p", "4">>, <<"a", "v", "i">>, <<"m", "o", "v">>, <<"m", "k", "v">>, <<"q", "u", "i", "c", "k", "t", "i", "m", "e">>, <<"x", "-", "m", "s", "v", "i", "d", "e", "o">>, <<"x", "-", "m", "a", "t", "r", "o", "s", "k", "a">>} : contains(s, pat)

\* multer's fileFilter: the file is kept when its extension or its MIME
\* type matches (extensions are supplied in lower case).
fileFilter(file) == allowedTypes(file.ext) \/ allowedTypes(file.mime)

(***************************************************************************)
(* Filter Graph Assembler                                                  *)
(***************************************************************************)
\* effectColor || '&H00D7FF&'
selectedEffectColor(body) ==
  IF body.effectColor = <<>> THEN <<"&", "H", "0", "0", "D", "7", "F", "F", "&">> ELSE body.effectColor

\* The filter one cue contributes under animation a (a # 'none'); the empty
\* sequence stands for null and for '', which `if (filter)` both skips.
cueFilter(body, sub) ==
  LET a == selectedAnimation(body)
      font == selectedFont(body)
      pos == selectedPosition(body)
      bg == selectedBgColor(body)
      size == selectedFontSize(body)
      wpl == selectedWordsPerLine(body)
      baseColorHex == convertBGRtoHex(textColor(body))
      effectColorHex == convertBGRtoHex(selectedEffectColor(body))
  IN CASE a = "word-highlight" ->
            createWordHighlightFilter(sub, font, baseColorHex, effectColorHex, pos, bg, size, wpl)
       [] a = "word-fill" ->
            createWordFillFilter(sub, font, baseColorHex, effectColorHex, pos, bg, size, wpl)
       [] a = "word-color" ->
            createWordColorFilter(sub, font, baseColorHex, effectColorHex, pos, bg, size, wpl)
       [] a = "word-reveal" ->
            createWordRevealFilter(sub, font, baseColorHex, pos, bg, size, wpl)
       [] a = "stroke" ->
            createStrokeFilter(sub, font, baseColorHex, effectColorHex, pos, bg, size, wpl)
       [] a = "fire-text" -> createFireTextFilter(sub, font, pos, size, wpl)
       [] a = "ice-text" -> createIceTextFilter(sub, font, pos, size, wpl)
       [] a = "glitch" -> createGlitchFilter(sub, font, pos, size, wpl)
       [] OTHER ->
            createAnimationFilter(sub, font, textColor(body), pos, bg, a, size, wpl)

\* videoFilters.push(`ass=${escapedPath}`)
assFilter(subtitlePath) ==
  << [cmd |-> "ass", path |-> escapeFFmpegPath(absolute(subtitlePath))] >>

\* The videoFilters array: one element for the document reference, or one
\* per cue that yields a non-empty filter.
videoFilters(body, subtitleData, subtitlePath) ==
  IF selectedAnimation(body) = "none" THEN << assFilter(subtitlePath) >>
  ELSE SelectSeq([k \in 1..Len(subtitleData) |-> cueFilter(body, subtitleData[k])],
                 LAMBDA f : f # <<>>)

\* videoFilters.length > 1 ? videoFilters.join(',') : videoFilters[0]
\* (undefined when the array is empty)
filterComplex(vf) == [defined |-> Len(vf) >= 1, cmds |-> flatten(vf)]

Undefined == [defined |-> FALSE, cmds |-> <<>>]

(***************************************************************************)
(* Requests                                                                *)
(***************************************************************************)
NoBody ==
  [subtitles |-> [kind |-> "absent", cues |-> <<>>],
   style |-> "", font |-> <<>>, fontSize |-> <<>>, color |-> "", position |-> "",
   bgColor |-> "", animation |-> "", effectColor |-> <<>>, wordsPerLine |-> <<>>,
   outlineColor |-> "", outlineThickness |-> <<>>, shadowColor |-> "",
   shadowDepth |-> <<>>]

\* No answer of the transcription service yet.
NoTranscription ==
  [words |-> <<>>, hasSegments |-> FALSE, segments |-> <<>>, text |-> <<>>, duration |-> 0]

Idle ==
  [ep |-> "", pc |-> "idle", videoPath |-> NoPath, outputPath |-> NoPath,
   subtitlePath |-> NoPath, audioPath |-> NoPath, body |-> NoBody,
   filter |-> Undefined, invoked |-> FALSE, wrote |-> FALSE, cause |-> "",
   transcription |-> NoTranscription, responses |-> <<>>]

\* res.status(code).json({ success: false, error, details })
failure(status, error, details) ==
  [status |-> status, success |-> FALSE, error |-> error, details |-> details,
   outputUrl |-> <<>>, subtitles |-> <<>>]

\* res.json({ success: true, outputUrl: `/outputs/${path.basename(outputPath)}` })
rendered(outputPath) ==
  [status |-> 200, success |-> TRUE, error |-> "", details |-> "",
   outputUrl |-> <<"/">> \o outputPath.dir \o <<"/">> \o outputPath.name,
   subtitles |-> <<>>]

\* res.json({ success: true, subtitles, ... })
transcribed(subtitles) ==
  [status |-> 200, success |-> TRUE, error |-> "", details |-> "",
   outputUrl |-> <<>>, subtitles |-> subtitles]

\* A handler that answers and goes on (a missing `return`).
respondAndGoOn(q, cause, response) ==
  [q EXCEPT !.cause = cause, !.responses = Append(@, response)]

\* The request's record once its handler has sent `response` for `cause`.
respond(q, cause, response) ==
  [q EXCEPT !.pc = "done", !.cause = cause, !.responses = Append(@, response)]

\* A parse that never throws.
jsonParsesAnything(subtitles) == TRUE

\* JSON.parse(subtitles) returns (does not throw)
jsonParses(subtitles) == subtitles.kind \in {"nonarray", "array"}

\* The compilation throws: the parsed value is not an array
\* (subtitleData.map / .forEach is not a function), or the text color is an
\* inherited function and a branch calls .replace on it (convertBGRtoHex in
\* the per-word branches, createAnimationFilter for each cue of the final
\* branch).
compileThrows(body) ==
  \/ body.subtitles.kind = "nonarray"
  \/ /\ selectedColor(body) \in Inherited
     /\ \/ selectedAnimation(body) \in
             {"word-highlight", "word-fill", "word-color", "word-reveal", "stroke"}
        \/ /\ selectedAnimation(body) \notin {"none", "fire-text", "ice-text", "glitch"}
           /\ body.subtitles.cues # <<>>

(***************************************************************************)
(* /api/transcribe: the transcription turned into cues                     *)
(***************************************************************************)
wordsPerSegment == 6

\* s.replace(/[\n\r\\]/g, '')
stripControl(s) == SelectSeq(s, LAMBDA c : c \notin {"\n", "\r", "\\"})

RECURSIVE dropTrailingSpaces(_)
dropTrailingSpaces(s) ==
  IF s # <<>> /\ IsSpace(s[Len(s)]) THEN dropTrailingSpaces(SubSeq(s, 1, Len(s) - 1)) ELSE s

trim(s) == dropTrailingSpaces(DropSpaces(s))

NoSegment == [words |-> <<>>, started |-> FALSE, startTime |-> 0, endTime |-> 0]

\* transcription.words.forEach((word, index) => ...), from entry `index`
\* (counted from 1) on, with the loop's two variables.
RECURSIVE groupWords(_, _, _, _)
groupWords(ws, index, currentSegment, subtitles) ==
  IF index > Len(ws) THEN subtitles
  ELSE
    LET word == ws[index]
        opened == IF currentSegment.started THEN currentSegment
                  ELSE [currentSegment EXCEPT !.started = TRUE, !.startTime = word.start]
        cleanWord == trim(stripControl(word.word))
        pushed == [opened EXCEPT
                     !.words = Append(@, [word |-> cleanWord, start |-> word.start,
                                          end |-> word.end]),
                     !.endTime = word.end]
        isLastWord == index = Len(ws)
        hasLongPause == index < Len(ws) /\ ws[index + 1].start - word.end > 500
        cleanText ==
          stripControl(trim(join([k \in 1..Len(pushed.words) |-> pushed.words[k].word],
                                 <<" ">>)))
    IN IF cleanWord = <<>> THEN groupWords(ws, index + 1, opened, subtitles)
       ELSE IF isLastWord \/ Len(pushed.words) >= wordsPerSegment \/ hasLongPause
       THEN groupWords(ws, index + 1, NoSegment,
                       IF cleanText # <<>>
                       THEN Append(subtitles,
                                   [text |-> cleanText, startTime |-> pushed.startTime,
                                    endTime |-> pushed.endTime, wordTimings |-> pushed.words])
                       ELSE subtitles)
       ELSE groupWords(ws, index + 1, pushed, subtitles)

\* The segment-level fallback.
segmentCues(segments) ==
  LET cue(seg) == [text |-> stripControl(trim(seg.text)), startTime |-> seg.start,
                   endTime |-> seg.end, wordTimings |-> <<>>]
  IN SelectSeq([k \in 1..Len(segments) |-> cue(segments[k])], LAMBDA c : c.text # <<>>)

\* Convert the service's answer to the subtitle format.  An absent `words`
\* or `text` is the empty sequence, an absent `duration` is 0 (each is only
\* tested for truthiness); an empty `segments` array is truthy.
toSubtitles(transcription) ==
  IF Len(transcription.words) > 0
  THEN groupWords(transcription.words, 1, NoSegment, <<>>)
  ELSE IF transcription.hasSegments THEN segmentCues(transcription.segments)
  ELSE IF transcription.text # <<>>
  THEN << [text |-> trim(transcription.text), startTime |-> 0,
           endTime |-> IF transcription.duration = 0 THEN 10000
                       ELSE transcription.duration,
           wordTimings |-> <<>>] >>
  ELSE <<>>

(***************************************************************************)
(* The state machine                                                       *)
(***************************************************************************)
Init ==
  /\ now = 0
  /\ files = <<>>
  /\ reqs = [r \in Requests |-> Idle]
  /\ apiKey \in BOOLEAN

\* Date.now() moves on.
Tick ==
  /\ now < MaxClock
  /\ now' = now + 1
  /\ UNCHANGED <<files, reqs, apiKey>>

\* A request arrives at endpoint ep and multer's upload.single('video')
\* stores its file part, if it has one the fileFilter keeps.
Upload(r, ep, file) ==
  /\ reqs[r].pc = "idle"
  /\ \A o \in Requests : o < r => reqs[o].pc # "idle"
  /\ IF file.present /\ fileFilter(file)
     THEN /\ files' = writeFile(files, uploadPath(now, file.ext),
                                [owner |-> r, kind |-> "video"])
          /\ reqs' = [reqs EXCEPT ![r] = [@ EXCEPT !.ep = ep, !.pc = "uploaded",
                                            !.videoPath = uploadPath(now, file.ext)]]
     ELSE /\ files' = files
          /\ reqs' = [reqs EXCEPT ![r] = [@ EXCEPT !.ep = ep, !.pc = "uploaded"]]
  /\ UNCHANGED <<now, apiKey>>

\* The handler of POST /api/add-subtitles, up to the engine's .run() or to
\* the response it sends itself.
AddSubtitles(r, body) ==
  /\ reqs[r].ep = "add"
  /\ reqs[r].pc = "uploaded"
  /\ LET q == [reqs[r] EXCEPT !.body = body]
         subtitleData == preWrap(body, body.subtitles.cues)
         vf == videoFilters(body, subtitleData, subtitlePathAt(now))
         run == [q EXCEPT !.pc = "engine", !.outputPath = outputPathAt(now),
                          !.subtitlePath = subtitlePathAt(now),
                          !.filter = filterComplex(vf), !.invoked = TRUE,
                          !.wrote = (selectedAnimation(body) = "none")]
     IN IF q.videoPath = NoPath
        THEN /\ reqs' = [reqs EXCEPT ![r] =
                           respond(q, "no-file", failure(400, "No video file uploaded", ""))]
             /\ files' = files
        ELSE IF body.subtitles.kind = "absent"
        THEN /\ reqs' = [reqs EXCEPT ![r] =
                           respond(q, "no-subtitles", failure(400, "No subtitles provided", ""))]
             /\ files' = files
        ELSE IF ~jsonParses(body.subtitles)
        THEN /\ reqs' = [reqs EXCEPT ![r] =
                           respond([q EXCEPT !.outputPath = outputPathAt(now)], "bad-json",
                                   failure(400, "Invalid subtitle format", ""))]
             /\ files' = files
        ELSE IF compileThrows(body)
        THEN /\ reqs' = [reqs EXCEPT ![r] =
                           respond([q EXCEPT !.outputPath = outputPathAt(now),
                                             !.subtitlePath = subtitlePathAt(now)],
                                   "exception",
                                   failure(500, "Server error", "TypeError"))]
             /\ files' = files
        ELSE /\ reqs' = [reqs EXCEPT ![r] = run]
             /\ files' = IF selectedAnimation(body) = "none"
                         THEN writeFile(files, subtitlePathAt(now),
                                        [owner |-> r, kind |-> "ass",
                                         doc |-> generateASSContent(body, subtitleData)])
                         ELSE files
  /\ UNCHANGED <<now, apiKey>>

\* The render failure answered in the words of the transcription endpoint.
renderFailureAsTranscription == failure(500, "Transcription failed", "ffmpeg")

\* res.status(500).json({ success: false, error: 'Video processing failed',
\* details: err.message })
renderFailure == failure(500, "Video processing failed", "ffmpeg")

\* The render engine emits 'end': the output exists, the handler cleans up
\* and answers.
EngineEnd(r) ==
  /\ reqs[r].ep = "add"
  /\ reqs[r].pc = "engine"
  /\ files' = cleanupAdd(writeFile(files, reqs[r].outputPath,
                                   [owner |-> r, kind |-> "output"]),
                         reqs[r].videoPath, reqs[r].subtitlePath)
  /\ reqs' = [reqs EXCEPT ![r] = respond(@, "rendered", rendered(@.outputPath))]
  /\ UNCHANGED <<now, apiKey>>

\* The render engine emits 'error' (it may leave a partial output behind).
EngineError(r, partial) ==
  /\ reqs[r].ep = "add"
  /\ reqs[r].pc = "engine"
  /\ files' = cleanupAdd(IF partial
                         THEN writeFile(files, reqs[r].outputPath,
                                        [owner |-> r, kind |-> "output"])
                         ELSE files,
                         reqs[r].videoPath, reqs[r].subtitlePath)
  /\ reqs' = [reqs EXCEPT ![r] =
                respond(@, "engine-error",
                        renderFailure)]
  /\ UNCHANGED <<now, apiKey>>

\* The handler of POST /api/transcribe, up to the audio extraction's .run()
\* or to the response it sends itself.
Transcribe(r) ==
  /\ reqs[r].ep = "transcribe"
  /\ reqs[r].pc = "uploaded"
  /\ reqs' = [reqs EXCEPT ![r] =
       IF @.videoPath = NoPath
       THEN respond(@, "no-file", failure(400, "No video file uploaded", ""))
       ELSE IF ~apiKey
       THEN respond(@, "no-key", failure(500, "Groq API key not configured", ""))
       ELSE [@ EXCEPT !.pc = "audio", !.audioPath = audioPathAt(now), !.invoked = TRUE]]
  /\ UNCHANGED <<now, files, apiKey>>

\* The audio extraction emits 'end': the audio file exists, the handler
\* reads it and sends it to the transcription service.
AudioEnd(r) ==
  /\ reqs[r].ep = "transcribe"
  /\ reqs[r].pc = "audio"
  /\ files' = writeFile(files, reqs[r].audioPath, [owner |-> r, kind |-> "audio"])
  /\ reqs' = [reqs EXCEPT ![r] = [@ EXCEPT !.pc = "fetch"]]
  /\ UNCHANGED <<now, apiKey>>

\* The audio extraction emits 'error': the promise rejects and the catch
\* block answers.
AudioError(r, partial) ==
  /\ reqs[r].ep = "transcribe"
  /\ reqs[r].pc = "audio"
  /\ files' = IF partial
              THEN writeFile(files, reqs[r].audioPath, [owner |-> r, kind |-> "audio"])
              ELSE files
  /\ reqs' = [reqs EXCEPT ![r] =
                respond(@, "engine-error", failure(500, "Transcription failed", "ffmpeg"))]
  /\ UNCHANGED <<now, apiKey>>

\* The transcription service answers with a transcription: clean up,
\* convert, answer.
FetchOk(r, transcription) ==
  /\ reqs[r].ep = "transcribe"
  /\ reqs[r].pc = "fetch"
  /\ files' = cleanupTranscribe(files, reqs[r].videoPath, reqs[r].audioPath)
  /\ reqs' = [reqs EXCEPT ![r] =
                respond([@ EXCEPT !.transcription = transcription], "transcribed",
                        transcribed(toSubtitles(transcription)))]
  /\ UNCHANGED <<now, apiKey>>

\* The transcription call fails: the service answers with an error status
\* (`Groq API error: <status>` is thrown), or fetch itself rejects.
FetchFail(r, details) ==
  /\ reqs[r].ep = "transcribe"
  /\ reqs[r].pc = "fetch"
  /\ reqs' = [reqs EXCEPT ![r] =
                respond(@, "service-error", failure(500, "Transcription failed", details))]
  /\ UNCHANGED <<now, files, apiKey>>

(***************************************************************************)
(* Inputs                                                                  *)
(***************************************************************************)
Endpoints == {"add", "transcribe"}

NoFile == [present |-> FALSE, ext |-> <<>>, mime |-> <<>>]

\* The file parts a request may carry: two videos and a text file.
UploadedFiles ==
  {NoFile,
   [present |-> TRUE, ext |-> <<".", "m", "p", "4">>, mime |-> <<"v", "i", "d", "e", "o", "/", "m", "p", "4">>],
   [present |-> TRUE, ext |-> <<".", "m", "o", "v">>, mime |-> <<"v", "i", "d", "e", "o", "/", "q", "u", "i", "c", "k", "t", "i", "m", "e">>],
   [present |-> TRUE, ext |-> <<".", "t", "x", "t">>, mime |-> <<"t", "e", "x", "t", "/", "p", "l", "a", "i", "n">>]}

CueAB == [text |-> <<"a", " ", "b">>, startTime |-> 0, endTime |-> 2500, wordTimings |-> <<>>]

CueC == [text |-> <<"c">>, startTime |-> 3000, endTime |-> 4000, wordTimings |-> <<>>]

Subtitles(cues) == [kind |-> "array", cues |-> cues]

\* The form bodies of the concurrent specification: the three invalid
\* cue-list fields, a value that is not an array, and a cue list rendered
\* statically and with an animation.
Bodies ==
  {NoBody,
   [NoBody EXCEPT !.subtitles = [kind |-> "invalid", cues |-> <<>>]],
   [NoBody EXCEPT !.subtitles = [kind |-> "nonarray", cues |-> <<>>]],
   [NoBody EXCEPT !.subtitles = Subtitles(<<CueAB>>)],
   [NoBody EXCEPT !.subtitles = Subtitles(<<CueAB>>), !.animation = "fade-in"]}

\* What the transcription service may answer: word-level timestamps, or
\* plain text only.
Transcriptions ==
  {[words |-> << [word |-> <<"h", "i">>, start |-> 0, end |-> 400],
                 [word |-> <<" ", "y", "o", "u">>, start |-> 1000, end |-> 1300] >>,
    hasSegments |-> FALSE, segments |-> <<>>, text |-> <<"h", "i", " ", "y", "o", "u">>, duration |-> 1300],
   [words |-> <<>>, hasSegments |-> FALSE, segments |-> <<>>, text |-> <<"h", "i">>,
    duration |-> 0]}

FetchFailures == {"Groq API error", "fetch failed"}

Next ==
  \/ Tick
  \/ \E r \in Requests, ep \in Endpoints, file \in UploadedFiles : Upload(r, ep, file)
  \/ \E r \in Requests, body \in Bodies : AddSubtitles(r, body)
  \/ \E r \in Requests : EngineEnd(r)
  \/ \E r \in Requests, partial \in BOOLEAN : EngineError(r, partial)
  \/ \E r \in Requests : Transcribe(r)
  \/ \E r \in Requests : AudioEnd(r)
  \/ \E r \in Requests, partial \in BOOLEAN : AudioError(r, partial)
  \/ \E r \in Requests, transcription \in Transcriptions : FetchOk(r, transcription)
  \/ \E r \in Requests, details \in FetchFailures : FetchFail(r, details)

\* Concurrent requests on both endpoints.
Spec == Init /\ [][Next]_vars

\* The style options of the rendering specification.
StyleNames == {"", "classic", "modern", "minimal", "bold", "neon", "boxed", "retro"}

BgNames == {"", "none", "black", "teal"}

ThicknessFields == {<<>>, <<"0">>, <<"3">>, <<"1", "2">>}

DepthFields == {<<>>, <<"0">>, <<"4">>}

AnimationNames == {"", "none", "fade-in", "word-reveal", "sparkle"}

RenderBodies ==
  {[NoBody EXCEPT !.subtitles = Subtitles(<<CueAB, CueC>>), !.style = st, !.bgColor = bg,
                  !.outlineThickness = th, !.shadowDepth = de, !.animation = an] :
     st \in StyleNames, bg \in BgNames, th \in ThicknessFields, de \in DepthFields,
     an \in AnimationNames}

NextRender ==
  \/ \E file \in UploadedFiles : Upload(1, "add", file)
  \/ \E body \in RenderBodies : AddSubtitles(1, body)
  \/ EngineEnd(1)
  \/ \E partial \in BOOLEAN : EngineError(1, partial)

\* One render request, over the style options (the only timestamps are its own).
SpecRender == Init /\ [][NextRender]_vars

(***************************************************************************)
(* Properties                                                              *)
(***************************************************************************)
Exists(p) == p \in DOMAIN files

Failed(q) == q.pc = "done" /\ ~q.responses[Len(q.responses)].success

\* C1: in POST /api/add-subtitles, once the media engine has been invoked,
\* whichever signal it emits, the request's uploaded video and its subtitle
\* document are gone from disk when the response is sent (the step that
\* takes the request from the engine run to its response leaves neither).
C1_EngineSignalCleansUp ==
  [][\A r \in Requests :
       (reqs[r].ep = "add" /\ reqs[r].pc = "engine" /\ reqs'[r].pc # "engine")
       => /\ Len(reqs'[r].responses) = Len(reqs[r].responses) + 1
          /\ reqs[r].videoPath \notin DOMAIN files'
          /\ reqs[r].subtitlePath \notin DOMAIN files']_vars

\* C1 witness: a request whose document was written has been answered after
\* the engine's error signal.
C1_Witness ==
  \E r \in Requests :
    /\ reqs[r].ep = "add" /\ reqs[r].pc = "done" /\ reqs[r].cause = "engine-error"
    /\ reqs[r].wrote /\ ~Exists(reqs[r].subtitlePath) /\ ~Exists(reqs[r].videoPath)

\* C2, as claimed: every step that sends a failure response, on either
\* endpoint and whatever the cause, leaves none of the request's scratch
\* files (uploaded video, subtitle document, extracted audio) on disk.
C2_FailureCleansUp ==
  [][\A r \in Requests :
       (Len(reqs'[r].responses) > Len(reqs[r].responses)
          /\ ~reqs'[r].responses[Len(reqs'[r].responses)].success)
       => /\ reqs'[r].videoPath \notin DOMAIN files'
          /\ reqs'[r].subtitlePath \notin DOMAIN files'
          /\ reqs'[r].audioPath \notin DOMAIN files']_vars

InFlight(q) == q.pc \notin {"idle", "done"}

ScratchPaths(q) == {q.videoPath, q.outputPath, q.subtitlePath, q.audioPath} \ {NoPath}

\* C3, as claimed: two requests in flight at the same time never use the
\* same scratch path.
C3_ScratchPathsDisjoint ==
  \A r1, r2 \in Requests :
    (r1 # r2 /\ InFlight(reqs[r1]) /\ InFlight(reqs[r2]))
    => ScratchPaths(reqs[r1]) \cap ScratchPaths(reqs[r2]) = {}

WellFormed(q, response) ==
  IF response.success
  THEN /\ response.error = ""
       /\ (q.ep = "add" => response.outputUrl # <<>>)
  ELSE /\ response.error # ""
       /\ response.outputUrl = <<>> /\ response.subtitles = <<>>

\* C4: every request gets exactly one response: none while it waits for the
\* engine or the service, one from the step in which either signals, never
\* a second; the response is a success body or a failure body; and a
\* failing request changes no other request and leaves the next one free to
\* arrive.
C4_ExactlyOneResponse ==
  /\ [](\A r \in Requests :
          /\ Len(reqs[r].responses) = (IF reqs[r].pc = "done" THEN 1 ELSE 0)
          /\ \A k \in 1..Len(reqs[r].responses) : WellFormed(reqs[r], reqs[r].responses[k])
          /\ (Failed(reqs[r]) /\ r < MaxReq /\ reqs[r + 1].pc = "idle")
             => ENABLED (\E ep \in Endpoints, file \in UploadedFiles : Upload(r + 1, ep, file)))
  /\ [][\A r \in Requests :
          /\ (reqs[r].pc \in {"engine", "fetch"} /\ reqs'[r] # reqs[r])
             => Len(reqs'[r].responses) = 1
          /\ (Len(reqs'[r].responses) > Len(reqs[r].responses))
             => \A o \in Requests \ {r} : reqs'[o] = reqs[o]]_vars

\* C4 witness: a request has failed and a later one has been served.
C4_Witness ==
  \E r1, r2 \in Requests :
    /\ r1 < r2 /\ Failed(reqs[r1])
    /\ reqs[r2].pc = "done" /\ reqs[r2].responses[1].success

\* C5: a request to /api/add-subtitles with no video file, no cue-list field
\* or an unparseable cue-list field is answered by its handler with
\* success=false, and the engine is never invoked and no subtitle document
\* written for it.
C5_ValidationDoesNoWork ==
  \A r \in Requests :
    (/\ reqs[r].ep = "add" /\ reqs[r].pc \notin {"idle", "uploaded"}
     /\ \/ reqs[r].videoPath = NoPath
        \/ reqs[r].body.subtitles.kind \in {"absent", "invalid"})
    => /\ reqs[r].pc = "done"
       /\ Len(reqs[r].responses) = 1 /\ ~reqs[r].responses[1].success
       /\ ~reqs[r].invoked /\ ~reqs[r].wrote
       /\ \A p \in DOMAIN files : ~(files[p].kind = "ass" /\ files[p].owner = r)

\* C5 witness: a request with a video and an unparseable cue list has been
\* rejected.
C5_Witness ==
  \E r \in Requests :
    /\ reqs[r].ep = "add" /\ reqs[r].videoPath # NoPath
    /\ reqs[r].body.subtitles.kind = "invalid" /\ Failed(reqs[r])

\* The animation names the handler dispatches on.
SupportedAnimations ==
  {"none", "word-highlight", "word-fill", "word-color", "word-reveal", "stroke",
   "fire-text", "ice-text", "glitch"} \cup SwitchCases

\* C6, as claimed: a request whose animation name is not a supported one
\* reaches the engine with the document written and with the filter graph
\* of the same request with animation "none".
C6_UnknownAnimationIsNone ==
  \A r \in Requests :
    (reqs[r].pc = "engine" /\ selectedAnimation(reqs[r].body) \notin SupportedAnimations)
    => /\ reqs[r].wrote
       /\ reqs[r].filter =
            filterComplex(videoFilters([reqs[r].body EXCEPT !.animation = "none"],
                                       reqs[r].body.subtitles.cues, reqs[r].subtitlePath))

\* C7, as claimed: a failure response caused by the media engine (in either
\* endpoint) and one caused by the transcription service never carry the
\* same error field.
C7_EngineAndServiceDistinct ==
  \A r1, r2 \in Requests :
    (reqs[r1].cause = "engine-error" /\ reqs[r2].cause = "service-error")
    => reqs[r1].responses[1].error # reqs[r2].responses[1].error

\* C7, amended: a render-engine failure of /api/add-subtitles never carries
\* the error field of a transcription-service failure, while an
\* audio-extraction failure inside /api/transcribe carries the same one.
C7_RenderAndServiceDistinct ==
  \A r1, r2 \in Requests :
    (reqs[r1].cause = "engine-error" /\ reqs[r2].cause = "service-error")
    => (reqs[r1].responses[1].error # reqs[r2].responses[1].error
          <=> reqs[r1].ep = "add")

\* C7 witness: a render-engine failure and a transcription-service failure
\* have both been answered.
C7_Witness ==
  \E r1, r2 \in Requests :
    /\ reqs[r1].ep = "add" /\ reqs[r1].cause = "engine-error"
    /\ reqs[r2].cause = "service-error"

\* The track documents on disk, each with the form body of its request.
Documents == {p \in DOMAIN files : files[p].kind = "ass"}

BodyOf(p) == reqs[files[p].owner].body

\* C8: whenever the request's background is not "none", the style record of
\* its track document has outline 0, shadow 0 and border style 4, whatever
\* the preset and the requested outline thickness and shadow depth.
C8_BackgroundForcesBox ==
  \A p \in Documents :
    BodyOf(p).bgColor \notin {"", "none"}
    => /\ files[p].doc.style.Outline = 0
       /\ files[p].doc.style.Shadow = 0
       /\ files[p].doc.style.BorderStyle = 4

\* C8 witness: a document written for a background, a preset with nominal
\* widths and a requested thickness and depth.
C8_Witness ==
  \E p \in Documents :
    /\ BodyOf(p).bgColor = "black" /\ BodyOf(p).style = "modern"
    /\ BodyOf(p).outlineThickness = <<"3">> /\ BodyOf(p).shadowDepth = <<"4">>

\* The non-negative integer a numeric form field supplies, if it does.
Supplies(field, v) == ~parseInt(field).nan /\ parseInt(field).val = v /\ v >= 0

\* C9, as claimed: with background "none", the document's outline width is
\* the supplied outline thickness and its shadow depth the supplied shadow
\* depth, for every non-negative integer supplied.
C9_SuppliedWidthsHonored ==
  \A p \in Documents :
    BodyOf(p).bgColor \in {"", "none"}
    => /\ \A v \in 0..12 : Supplies(BodyOf(p).outlineThickness, v)
                             => files[p].doc.style.Outline = v
       /\ \A v \in 0..12 : Supplies(BodyOf(p).shadowDepth, v)
                             => files[p].doc.style.Shadow = v

\* The nominal widths the claim lists: <<outline, shadow>> per preset.
NominalWidths(preset) ==
  CASE preset = "classic" -> <<2, 1>> [] preset = "modern" -> <<3, 0>>
    [] preset = "minimal" -> <<1, 2>> [] preset = "bold" -> <<4, 0>>
    [] preset = "neon" -> <<2, 3>> [] preset = "boxed" -> <<0, 0>>

\* C10, as claimed: with background "none" and no outline thickness or
\* shadow depth supplied, the document's outline and shadow are the preset's
\* nominal widths, and its bold flag is set exactly for modern, bold, neon.
C10_PresetWidthsUsed ==
  \A p \in Documents :
    (/\ BodyOf(p).bgColor \in {"", "none"}
     /\ BodyOf(p).outlineThickness = <<>> /\ BodyOf(p).shadowDepth = <<>>
     /\ BodyOf(p).style \in {"classic", "modern", "minimal", "bold", "neon", "boxed"})
    => /\ <<files[p].doc.style.Outline, files[p].doc.style.Shadow>>
            = NominalWidths(BodyOf(p).style)
       /\ (files[p].doc.style.Bold # 0 <=> BodyOf(p).style \in {"modern", "bold", "neon"})
(***************************************************************************)
(* Style resolution over unknown names and font sizes                      *)
(***************************************************************************)
PositionFields == {"", "nonsense", "top-left", "toString"}

ColorFields == {"", "nonsense", "red", "constructor"}

PresetFields == {"", "nonsense", "bold", "valueOf"}

FontSizeFields == {<<>>, <<"a", "b", "c">>, <<"0">>, <<"-", "5">>, <<"3", "2">>, <<"9", "9", "9", "9">>}

StyleBodies ==
  {[NoBody EXCEPT !.subtitles = Subtitles(<<CueAB>>), !.position = po, !.color = co,
                  !.style = st, !.fontSize = fs] :
     po \in PositionFields, co \in ColorFields, st \in PresetFields, fs \in FontSizeFields}

NextStyle ==
  \/ \E file \in UploadedFiles : Upload(1, "add", file)
  \/ \E body \in StyleBodies : AddSubtitles(1, body)
  \/ EngineEnd(1)
  \/ \E partial \in BOOLEAN : EngineError(1, partial)

\* One static render request, over position, color, preset and font size.
SpecStyle == Init /\ [][NextStyle]_vars

\* The keys of the position, color and preset tables.
PositionNames ==
  {"bottom-left", "bottom-center", "bottom-right", "middle-left", "middle-center",
   "middle-right", "top-left", "top-center", "top-right"}

ColorNames ==
  {"white", "yellow", "cyan", "red", "green", "blue", "purple", "orange", "pink",
   "gold", "silver", "rainbow"}

PresetNames == {"classic", "modern", "minimal", "bold", "neon", "boxed"}

\* A supplied name that is not a key of the table.
UnknownName(name, keys) == name # "" /\ name \notin keys

\* The fields of a style record the claim compares.
Resolved(style) ==
  <<style.Alignment, style.MarginL, style.MarginR, style.MarginV, style.PrimaryColour,
    style.Bold, style.BorderStyle, style.Outline, style.Shadow>>

\* C11, as claimed: a document written for a request whose position, color
\* and preset are all names unknown to their tables carries the same
\* resolved style (alignment, margins, primary color, bold flag, border
\* style, outline, shadow) as the same request with the three fields absent.
C11_UnknownNamesDegrade ==
  \A p \in Documents :
    (/\ UnknownName(BodyOf(p).position, PositionNames)
     /\ UnknownName(BodyOf(p).color, ColorNames)
     /\ UnknownName(BodyOf(p).style, PresetNames))
    => Resolved(files[p].doc.style)
         = Resolved(StyleLine([BodyOf(p) EXCEPT !.position = "", !.color = "", !.style = ""]))

\* C12, as claimed: the font size of every document is a positive integer,
\* and it is 24 when the fontSize field is missing, not numeric or zero.
C12_FontSizePositive ==
  \A p \in Documents :
    /\ files[p].doc.style.Fontsize >= 1
    /\ (parseInt(BodyOf(p).fontSize).nan \/ parseInt(BodyOf(p).fontSize).val = 0)
         => files[p].doc.style.Fontsize = 24
(***************************************************************************)
(* The animated compiler over cues, fonts and line widths                  *)
(***************************************************************************)
CueABCD ==
  [text |-> <<"a", " ", "b", " ", "c", " ", "d">>, startTime |-> 10000, endTime |-> 14000,
   wordTimings |-> <<>>]

CueBlank == [text |-> <<" ", " ">>, startTime |-> 500, endTime |-> 900, wordTimings |-> <<>>]

CueDelims ==
  [text |-> <<"x", ":", "y", " ", "[", "z", "]", " ", "o", "'", "k", " ", "a", "\\", "b">>,
   startTime |-> 0, endTime |-> 2000, wordTimings |-> <<>>]

CueTimed ==
  [text |-> <<"a", " ", "b">>, startTime |-> 0, endTime |-> 2500,
   wordTimings |-> << [word |-> <<"a">>, start |-> 100, end |-> 900],
                      [word |-> <<"b">>, start |-> 1000, end |-> 2400] >>]

\* A cue whose timing list (three words) differs from the split of its text.
CueRetimed ==
  [text |-> <<"a", " ", "b">>, startTime |-> 0, endTime |-> 2500,
   wordTimings |-> << [word |-> <<"x">>, start |-> 100, end |-> 400],
                      [word |-> <<"y", ":">>, start |-> 500, end |-> 900],
                      [word |-> <<"z">>, start |-> 1000, end |-> 2000] >>]

CueLists ==
  {<<CueRetimed>>, <<CueABCD>>, <<CueAB>>, <<CueC>>, <<CueBlank, CueC>>, <<CueAB, CueBlank>>,
   <<CueDelims>>, <<CueTimed>>, <<CueAB, CueC>>, <<CueBlank>>}

WordsPerLineFields == {<<>>, <<"2">>, <<"5">>}

FontFields == {<<>>, <<"A", ":", "b">>, <<"M", "\\", "F">>}

PerWordAnimations == {"word-highlight", "word-fill", "word-color", "word-reveal", "stroke"}

CompileBodies ==
  {[NoBody EXCEPT !.subtitles = Subtitles(cs), !.wordsPerLine = wpl, !.font = fo,
                  !.animation = an] :
     cs \in CueLists, wpl \in WordsPerLineFields, fo \in FontFields,
     an \in PerWordAnimations \cup {"fade-in"}}

NextCompile ==
  \/ \E file \in UploadedFiles : Upload(1, "add", file)
  \/ \E body \in CompileBodies : AddSubtitles(1, body)
  \/ EngineEnd(1)
  \/ \E partial \in BOOLEAN : EngineError(1, partial)

\* One animated render request, over cue lists, fonts and line widths.
SpecCompile == Init /\ [][NextCompile]_vars

\* The requests whose filter graph has been compiled and handed to the engine.
Compiled(r) == reqs[r].ep = "add" /\ reqs[r].invoked

\* The commands of a compiled graph with a given role, in graph order.
WithRole(r, role) == SelectSeq(reqs[r].filter.cmds, LAMBDA c : c.role = role)

\* The only cue of a request with one cue.
OnlyCue(r) == reqs[r].body.subtitles.cues[1]

\* A request with exactly one cue, that cue having no external timings, at
\* least one word and a positive duration.
OneSynthesizedCue(r) ==
  /\ Len(reqs[r].body.subtitles.cues) = 1
  /\ OnlyCue(r).wordTimings = <<>>
  /\ splitWords(OnlyCue(r).text) # <<>>
  /\ OnlyCue(r).endTime > OnlyCue(r).startTime

\* Comparisons of exact values n/d.
RatLe(a, b) == a.n * b.d <= b.n * a.d

\* a = n/d
RatIs(a, n, d) == a.n * d = n * a.d

\* C13: for a cue with N >= 1 words, a positive duration d and no external
\* timings, the word timings (read off the highlight windows of the
\* word-highlight graph) are N entries in word order with
\* start[i] = startTime + 0.05*d + i*(0.9*d/N) and end[i] = start[i] + 0.9*d/N,
\* and start[0] >= startTime, end[N-1] <= endTime, start[i] <= end[i] <= start[i+1].
C13_SynthesizedTimings ==
  \A r \in Requests :
    (Compiled(r) /\ selectedAnimation(reqs[r].body) = "word-highlight" /\ OneSynthesizedCue(r))
    => LET ws == splitWords(OnlyCue(r).text)
           N == Len(ws)
           S == OnlyCue(r).startTime
           d == OnlyCue(r).endTime - S
           hs == WithRole(r, "highlight")
           start(i) == hs[i + 1].enable[1]
           end(i) == hs[i + 1].enable[2]
       IN /\ Len(hs) = N
          /\ \A i \in 0..(N - 1) :
               /\ hs[i + 1].text = escapeQuoteColon(ws[i + 1])
               /\ RatIs(start(i), 100 * N * S + 5 * N * d + i * 90 * d, 100 * N)
               /\ RatIs(end(i), 100 * N * S + 5 * N * d + (i + 1) * 90 * d, 100 * N)
               /\ RatLe(start(i), end(i))
               /\ i < N - 1 => RatLe(end(i), start(i + 1))
          /\ RatLe(Rat(S, 1), start(0))
          /\ RatLe(end(N - 1), Rat(OnlyCue(r).endTime, 1))

\* C13 witness: the word-highlight graph of cue 'a b c d', 10 s to 14 s.
C13_Witness ==
  \E r \in Requests :
    /\ Compiled(r) /\ selectedAnimation(reqs[r].body) = "word-highlight"
    /\ reqs[r].body.subtitles.cues = <<CueABCD>>
    /\ Len(WithRole(r, "highlight")) = 4
(***************************************************************************)
(* The track document over cue times                                       *)
(***************************************************************************)
\* Cue times in milliseconds: 0, 0.29 s, 1.2 s, 2.5 s, 1 min 1.13 s and
\* 1 h 1 min 1.5 s.
DocTimes == {0, 290, 1200, 2500, 61130, 3661500}

TimedCue(text, from, to) ==
  [text |-> text, startTime |-> from, endTime |-> to, wordTimings |-> <<>>]

\* One cue 'a b', or that cue followed by a cue 'c' (earlier, later or
\* overlapping).
DocCueLists ==
  {<<TimedCue(<<"a", " ", "b">>, q[1], q[2])>> :
     q \in {x \in DocTimes \X DocTimes : x[1] < x[2]}}
    \cup {<<TimedCue(<<"a", " ", "b">>, s, e), TimedCue(<<"c">>, s2, 2500)>> :
            s \in {0, 1200}, e \in {2500, 3661500}, s2 \in {0, 290, 1200}}

DocBodies ==
  {[NoBody EXCEPT !.subtitles = Subtitles(cs), !.animation = an] :
     cs \in DocCueLists, an \in {"", "none"}}

NextDoc ==
  \/ \E file \in UploadedFiles : Upload(1, "add", file)
  \/ \E body \in DocBodies : AddSubtitles(1, body)
  \/ EngineEnd(1)
  \/ \E partial \in BOOLEAN : EngineError(1, partial)

\* One static render request, over cue lists and cue times.
SpecDoc == Init /\ [][NextDoc]_vars

\* The text s reads H:MM:SS.CC, with MM and SS in 00-59 and CC in 00-99,
\* and its fields recompose to the time ms in whole centiseconds.
Recomposes(s, ms) ==
  LET n == Len(s)
      H == SubSeq(s, 1, n - 9)
      MM == SubSeq(s, n - 7, n - 6)
      SS == SubSeq(s, n - 4, n - 3)
      CC == SubSeq(s, n - 1, n)
      val(f) == DecimalValue(f, 0)
  IN /\ n >= 10
     /\ s[n - 8] = ":" /\ s[n - 5] = ":" /\ s[n - 2] = "."
     /\ \A k \in (1..n) \ {n - 8, n - 5, n - 2} : s[k] \in Digits
     /\ val(MM) <= 59 /\ val(SS) <= 59
     /\ ((val(H) * 60 + val(MM)) * 60 + val(SS)) * 100 + val(CC) = ms \div 10

\* C14, as claimed: with animation "none" the document has exactly one
\* timed entry per cue of the request, in cue order, each carrying the cue's
\* text and the cue's start and end as H:MM:SS.CC, the fields recomposing to
\* the cue time in whole centiseconds.
C14_EntryPerCue ==
  \A p \in Documents :
    LET cues == BodyOf(p).subtitles.cues
        events == files[p].doc.events
    IN /\ Len(events) = Len(cues)
       /\ \A k \in 1..Len(cues) :
            /\ events[k].Text = cues[k].text
            /\ Recomposes(events[k].Start, cues[k].startTime)
            /\ Recomposes(events[k].End, cues[k].endTime)
(***************************************************************************)
(* The compiled commands of the whole-line and per-word families           *)
(***************************************************************************)
\* The times a command of a cue is probed at: around its start, inside and
\* at the end of the half second of the fade, and around its end.
ProbeTimes(cue) ==
  {cue.startTime + x : x \in {0, 1, 125, 250, 499, 500, 501, 1000}}
    \cup {cue.endTime - 1, cue.endTime, cue.endTime + 1}
    \cup (IF cue.startTime > 0 THEN {cue.startTime - 1} ELSE {})

\* C15: with animation "fade-in" and wordsPerLine 0, the graph has exactly
\* one draw command per cue, in cue order, enabled exactly at the times t
\* with startTime <= t <= endTime; its opacity is 0 at startTime,
\* (t - startTime)/0.5 while t - startTime < 0.5 s, and 1 from then on.
C15_FadeInPerCue ==
  \A r \in Requests :
    (Compiled(r) /\ selectedAnimation(reqs[r].body) = "fade-in"
       /\ selectedWordsPerLine(reqs[r].body) = 0)
    => LET cues == reqs[r].body.subtitles.cues
           cmds == reqs[r].filter.cmds
       IN /\ Len(cmds) = Len(cues)
          /\ \A k \in 1..Len(cues) :
               /\ cmds[k].cmd = "drawtext"
               /\ cmds[k].text = escapeQuoteColon(cues[k].text)
               /\ \A t \in ProbeTimes(cues[k]) :
                    /\ enabledAt(cmds[k], t) <=> (cues[k].startTime <= t /\ t <= cues[k].endTime)
                    /\ t = cues[k].startTime => alphaAt(cmds[k], t) = Rat(0, 1)
                    /\ (t >= cues[k].startTime /\ t - cues[k].startTime < 500)
                         => alphaAt(cmds[k], t) = Rat(t - cues[k].startTime, 500)
                    /\ t - cues[k].startTime >= 500 => alphaAt(cmds[k], t) = Rat(1, 1)

\* C15 witness: the fade-in graph of two cues, one of them blank, compiled
\* without forced wrapping.
C15_Witness ==
  \E r \in Requests :
    /\ Compiled(r) /\ selectedAnimation(reqs[r].body) = "fade-in"
    /\ selectedWordsPerLine(reqs[r].body) = 0
    /\ reqs[r].body.subtitles.cues = <<CueBlank, CueC>>
    /\ Len(reqs[r].filter.cmds) = 2
    /\ alphaAt(reqs[r].filter.cmds[2], 3250) = Rat(1, 2)

\* What the claim expects of the words of one cue without external timings:
\* word i (from 0) of N, shown from startTime + 0.05*d + i*(0.9*d/N) to the
\* cue's endTime.
RevealedWords(cue) ==
  LET ws == splitWords(cue.text)
      N == Len(ws)
      S == cue.startTime
      d == cue.endTime - S
  IN [k \in 1..N |->
        [text |-> escapeQuoteColon(ws[k]),
         enable |-> <<Rat(100 * N * S + 5 * N * d + (k - 1) * 90 * d, 100 * N),
                      Rat(cue.endTime, 1)>>]]

\* C16: with animation "word-reveal" and no external word timings, the graph
\* is, cue after cue, one draw command per word in word order (N commands
\* for a cue of N words), word i's window starting at its synthesized start
\* startTime + 0.05*d + i*(0.9*d/N) and ending at the cue's endTime.
C16_RevealWindows ==
  \A r \in Requests :
    (/\ Compiled(r) /\ selectedAnimation(reqs[r].body) = "word-reveal"
     /\ \A k \in 1..Len(reqs[r].body.subtitles.cues) :
          reqs[r].body.subtitles.cues[k].wordTimings = <<>>)
    => LET cues == reqs[r].body.subtitles.cues
           cmds == reqs[r].filter.cmds
       IN [k \in 1..Len(cmds) |-> [text |-> cmds[k].text, enable |-> cmds[k].enable]]
            = flatten([k \in 1..Len(cues) |-> RevealedWords(cues[k])])

\* C16 witness: cue 'a b c d' from 10 s to 14 s compiled to four commands,
\* the third showing 'c' from 12 s to 14 s.
C16_Witness ==
  \E r \in Requests :
    /\ Compiled(r) /\ selectedAnimation(reqs[r].body) = "word-reveal"
    /\ reqs[r].body.subtitles.cues = <<CueABCD>>
    /\ Len(reqs[r].filter.cmds) = 4
    /\ reqs[r].filter.cmds[3].text = <<"c">>
    /\ reqs[r].filter.cmds[3].enable = <<Rat(12000, 1), Rat(14000, 1)>>

\* A cue whose text has no word: nothing but white space.
Wordless(cue) == \A i \in 1..Len(cue.text) : IsSpace(cue.text[i])

\* The requests of the render endpoint that carried a video and a cue list.
Submitted(r) ==
  /\ reqs[r].ep = "add" /\ reqs[r].videoPath # NoPath
  /\ reqs[r].body.subtitles.kind = "array"

Delimiters == {":", "'", "\\", "[", "]"}

\* Every delimiter of s is escaped: a backslash is followed by a delimiter,
\* which it escapes, and no delimiter stands without one.
RECURSIVE Escaped(_)
Escaped(s) ==
  IF s = <<>> THEN TRUE
  ELSE IF Head(s) = "\\" THEN Len(s) >= 2 /\ s[2] \in Delimiters /\ Escaped(Tail(Tail(s)))
  ELSE Head(s) \notin Delimiters /\ Escaped(Tail(s))

\* C18, as claimed: in the graph handed to the engine, the text and the font
\* of every draw command and the path of every document reference have each
\* colon, single quote, backslash and bracket escaped.
C18_DelimitersEscaped ==
  \A r \in Requests :
    Compiled(r) =>
      \A k \in 1..Len(reqs[r].filter.cmds) :
        LET c == reqs[r].filter.cmds[k]
        IN IF c.cmd = "drawtext" THEN Escaped(c.text) /\ Escaped(c.font)
           ELSE Escaped(c.path)
\* The roles of the commands each per-word family draws for one word.
FamilyRoles(animation) ==
  CASE animation = "word-highlight" -> {"base", "highlight"}
    [] animation = "word-fill" -> {"base", "fill"}
    [] animation = "word-color" -> {"before", "after", "during"}
    [] animation = "word-reveal" -> {"reveal"}
    [] animation = "stroke" -> {"outline", "fill"}

\* Math.round(fontSizeNum * 1.3), and * 1.2 in the word-fill family.
lineHeightOf(body) ==
  round(selectedFontSize(body) * (IF selectedAnimation(body) = "word-fill" THEN 12 ELSE 13), 10)

\* The commands of the only cue of request r lie in lines of `per` words:
\* in every role of the family there is one command per word, in word
\* order, word i (from 0) on line i \div per, drawn (i \div per) * lineHeight
\* below the anchor of the block, which all the commands share.
InLinesOf(r, per) ==
  LET body == reqs[r].body
      ws == splitWords(OnlyCue(r).text)
      N == Len(ws)
      lines == (N + per - 1) \div per
  IN \A role \in FamilyRoles(selectedAnimation(body)) :
       /\ Len(WithRole(r, role)) = N
       /\ \A i \in 0..(N - 1) :
            LET c == WithRole(r, role)[i + 1]
            IN /\ c.text = escapeQuoteColon(ws[i + 1])
               /\ c.y = yExpr(selectedPosition(body), lines * lineHeightOf(body),
                              (i \div per) * lineHeightOf(body))

\* The requests of a per-word family with one cue that has words and no
\* external timings.
PerWordCue(r) ==
  /\ Compiled(r) /\ selectedAnimation(reqs[r].body) \in PerWordAnimations
  /\ Len(reqs[r].body.subtitles.cues) = 1
  /\ OnlyCue(r).wordTimings = <<>>
  /\ splitWords(OnlyCue(r).text) # <<>>

\* C20, as claimed: in every per-word family the words of a cue are grouped
\* into lines of max(wordsPerLine, wordCount) words, wordsPerLine = 0 giving
\* a single line, and line k is drawn lineHeight*k below the shared block
\* anchor.
C20_LinesOfMax ==
  \A r \in Requests :
    PerWordCue(r)
    => InLinesOf(r, IF selectedWordsPerLine(reqs[r].body) >= Len(splitWords(OnlyCue(r).text))
                    THEN selectedWordsPerLine(reqs[r].body)
                    ELSE Len(splitWords(OnlyCue(r).text)))

\* C20, amended: in every per-word family the words of a cue are grouped
\* into lines of wordsPerLine words when wordsPerLine > 0 (the last line
\* taking what is left) and into a single line otherwise, and line k is
\* drawn lineHeight*k below the shared block anchor.
C20_LinesOfWordsPerLine ==
  \A r \in Requests :
    PerWordCue(r)
    => InLinesOf(r, IF selectedWordsPerLine(reqs[r].body) > 0
                    THEN selectedWordsPerLine(reqs[r].body)
                    ELSE Len(splitWords(OnlyCue(r).text)))

\* C20 witness: the word-highlight graph of 'a b c d' with wordsPerLine 2,
\* whose third word is drawn one line height below the anchor.
C20_Witness ==
  \E r \in Requests :
    /\ PerWordCue(r) /\ selectedAnimation(reqs[r].body) = "word-highlight"
    /\ reqs[r].body.subtitles.cues = <<CueABCD>>
    /\ selectedWordsPerLine(reqs[r].body) = 2
    /\ WithRole(r, "base")[3].y.yOffset = 31
    /\ WithRole(r, "base")[2].y.yOffset = 0
\* The window of the command of role `role` a family draws for a word with
\* timing w in a cue from S to E.
WindowOf(animation, role, S, E, w) ==
  CASE role = "base" -> IF animation = "word-highlight" THEN <<S, E>> ELSE <<S, w.start>>
    [] role \in {"highlight", "during"} -> <<w.start, w.end>>
    [] role \in {"fill", "reveal"} -> <<w.start, E>>
    [] role \in {"before", "outline"} -> <<S, w.start>>
    [] role = "after" -> <<w.end, E>>

\* The requests of a per-word family with one cue that has words and
\* external timings.
ExternallyTimedCue(r) ==
  /\ Compiled(r) /\ selectedAnimation(reqs[r].body) \in PerWordAnimations
  /\ Len(reqs[r].body.subtitles.cues) = 1
  /\ OnlyCue(r).wordTimings # <<>>
  /\ ~Wordless(OnlyCue(r))

\* C24: for a cue with external word timings and a text that has words,
\* every per-word family draws, in each of its roles, one command per entry
\* of the timing list, in the order of the list, showing that entry's word
\* in a window built from that entry's own start and end, whatever
\* wordsPerLine is.
C24_ExternalTimingsVerbatim ==
  \A r \in Requests :
    ExternallyTimedCue(r)
    => LET a == selectedAnimation(reqs[r].body)
           wt == OnlyCue(r).wordTimings
           S == Rat(OnlyCue(r).startTime, 1)
           E == Rat(OnlyCue(r).endTime, 1)
       IN \A role \in FamilyRoles(a) :
            /\ Len(WithRole(r, role)) = Len(wt)
            /\ \A i \in 1..Len(wt) :
                 /\ WithRole(r, role)[i].text = escapeQuoteColon(wt[i].word)
                 /\ WithRole(r, role)[i].enable
                      = WindowOf(a, role, S, E,
                                 [start |-> Rat(wt[i].start, 1), end |-> Rat(wt[i].end, 1)])

\* C24 witness: the word-color graph of a cue 'a b' with the three external
\* timings x, y:, z and two words per line: the third word z, alone on the
\* second line, is highlighted from 1 s to 2 s.
C24_Witness ==
  \E r \in Requests :
    /\ ExternallyTimedCue(r) /\ selectedAnimation(reqs[r].body) = "word-color"
    /\ OnlyCue(r) = CueRetimed /\ selectedWordsPerLine(reqs[r].body) = 2
    /\ Len(WithRole(r, "during")) = 3
    /\ WithRole(r, "during")[3].text = <<"z">>
    /\ WithRole(r, "during")[3].enable = <<Rat(1000, 1), Rat(2000, 1)>>
    /\ WithRole(r, "during")[3].y.yOffset > 0
\* The times of a cue's window the stacked commands are probed at: every
\* 25 ms, and 1 ms before and after (all word boundaries of the cues above
\* are multiples of 25 ms).
WindowGrid(cue) == {t \in cue.startTime..cue.endTime : t % 25 \in {0, 1, 24}}

\* Time t (in milliseconds) lies in the timing window of w.
InTiming(w, t) == w.start.n <= t * w.start.d /\ t * w.end.d <= w.end.n

\* Of the commands cmds[from + 1 .. from + n], the last one enabled at t
\* (the one drawn on top); 0 when none is.
TopMost(cmds, from, n, t) ==
  LET on == {j \in 1..n : enabledAt(cmds[from + j], t)}
  IN IF on = {} THEN 0 ELSE CHOOSE j \in on : \A k \in on : k <= j

\* The requests of a per-word family with one cue that has words.
OneWordedCue(r) ==
  /\ Compiled(r) /\ selectedAnimation(reqs[r].body) \in PerWordAnimations
  /\ Len(reqs[r].body.subtitles.cues) = 1
  /\ ~Wordless(OnlyCue(r))

\* The colors the handler passes to the families.
BaseColorOf(r) == convertBGRtoHex(textColor(reqs[r].body))

EffectColorOf(r) == convertBGRtoHex(selectedEffectColor(reqs[r].body))

\* C25: with animation "word-color" each word gets exactly three draw
\* commands, and at every time t of the cue window [startTime, endTime] at
\* least one of them is enabled and the last enabled one is in the effect
\* color exactly when t lies in the word's own timing window, in the base
\* color otherwise.
C25_WordColorStack ==
  \A r \in Requests :
    (OneWordedCue(r) /\ selectedAnimation(reqs[r].body) = "word-color")
    => LET ts == calculateWordTimings(OnlyCue(r))
           cmds == reqs[r].filter.cmds
       IN /\ Len(cmds) = 3 * Len(ts)
          /\ \A i \in 1..Len(ts) :
               /\ \A j \in 1..3 : cmds[3 * (i - 1) + j].text = escapeQuoteColon(ts[i].word)
               /\ \A t \in WindowGrid(OnlyCue(r)) :
                    LET top == TopMost(cmds, 3 * (i - 1), 3, t)
                    IN /\ top # 0
                       /\ cmds[3 * (i - 1) + top].fontcolor
                            = IF InTiming(ts[i], t) THEN EffectColorOf(r) ELSE BaseColorOf(r)

\* C25 witness: in the word-color graph of 'a b c d' (10 s to 14 s), word
\* 'c' is drawn in the effect color at 12 s, where its base command that
\* ends there is enabled too, and in the base color 1 ms earlier.
C25_Witness ==
  \E r \in Requests :
    /\ OneWordedCue(r) /\ selectedAnimation(reqs[r].body) = "word-color"
    /\ OnlyCue(r) = CueABCD
    /\ BaseColorOf(r) # EffectColorOf(r)
    /\ enabledAt(reqs[r].filter.cmds[7], 12000)
    /\ reqs[r].filter.cmds[6 + TopMost(reqs[r].filter.cmds, 6, 3, 12000)].fontcolor
         = EffectColorOf(r)
    /\ reqs[r].filter.cmds[6 + TopMost(reqs[r].filter.cmds, 6, 3, 11999)].fontcolor
         = BaseColorOf(r)
\* C26: with animation "word-fill" each word gets exactly two draw
\* commands, and over the cue window the last enabled one is in the base
\* color while startTime <= t < the word's timing start, and in the fill
\* color at every t from the word's timing start to the cue's end: a filled
\* word never reverts.
C26_WordFillStack ==
  \A r \in Requests :
    (OneWordedCue(r) /\ selectedAnimation(reqs[r].body) = "word-fill")
    => LET ts == calculateWordTimings(OnlyCue(r))
           cmds == reqs[r].filter.cmds
       IN /\ Len(cmds) = 2 * Len(ts)
          /\ \A i \in 1..Len(ts) :
               /\ \A j \in 1..2 : cmds[2 * (i - 1) + j].text = escapeQuoteColon(ts[i].word)
               /\ \A t \in WindowGrid(OnlyCue(r)) :
                    LET top == TopMost(cmds, 2 * (i - 1), 2, t)
                    IN /\ top # 0
                       /\ cmds[2 * (i - 1) + top].fontcolor
                            = IF t * ts[i].start.d < ts[i].start.n THEN BaseColorOf(r)
                              ELSE EffectColorOf(r)

\* C26 witness: in the word-fill graph of 'a b c d' (10 s to 14 s), word 'c'
\* is in the base color 1 ms before 12 s and in the fill color at 12 s and
\* still at 14 s.
C26_Witness ==
  \E r \in Requests :
    /\ OneWordedCue(r) /\ selectedAnimation(reqs[r].body) = "word-fill"
    /\ OnlyCue(r) = CueABCD
    /\ BaseColorOf(r) # EffectColorOf(r)
    /\ reqs[r].filter.cmds[4 + TopMost(reqs[r].filter.cmds, 4, 2, 11999)].fontcolor
         = BaseColorOf(r)
    /\ reqs[r].filter.cmds[4 + TopMost(reqs[r].filter.cmds, 4, 2, 12000)].fontcolor
         = EffectColorOf(r)
    /\ reqs[r].filter.cmds[4 + TopMost(reqs[r].filter.cmds, 4, 2, 14000)].fontcolor
         = EffectColorOf(r)
(***************************************************************************)
(* The palette families over cues and line widths                          *)
(***************************************************************************)
FlickerBodies ==
  {[NoBody EXCEPT !.subtitles = Subtitles(cs), !.wordsPerLine = wpl, !.animation = an] :
     cs \in CueLists, wpl \in WordsPerLineFields, an \in {"fire-text", "ice-text"}}

NextFlicker ==
  \/ \E file \in UploadedFiles : Upload(1, "add", file)
  \/ \E body \in FlickerBodies : AddSubtitles(1, body)
  \/ EngineEnd(1)
  \/ \E partial \in BOOLEAN : EngineError(1, partial)

\* One fire-text or ice-text render request, over cue lists and line widths.
SpecFlicker == Init /\ [][NextFlicker]_vars

\* The wrapped lines of a request, cue after cue, each with its cue's window.
WrappedLines(body) ==
  flatten([c \in 1..Len(body.subtitles.cues) |->
             LET cue == body.subtitles.cues[c]
                 ls == textLines(cue.text, selectedWordsPerLine(body))
             IN [l \in 1..Len(ls) |->
                   [text |-> ls[l], startTime |-> cue.startTime, endTime |-> cue.endTime]]])

\* The time one palette color lasts, in milliseconds: 0.15 s for fire,
\* 0.12 s for ice.
ColorTime(animation) == IF animation = "fire-text" THEN 150 ELSE 120

\* The times of a line's window the layers are probed at: every 30 ms from
\* the start, and 1 ms before and after.
FlickerGrid(line) == {t \in line.startTime..line.endTime : (t - line.startTime) % 30 \in {0, 1, 29}}

\* C27: with animation "fire-text" or "ice-text" each wrapped line gets
\* exactly six draw commands, five palette layers and then a base layer of
\* opacity 0.3, all enabled for the whole cue window; palette layer k is
\* opaque exactly when (t - startTime + k*p) mod 5p < p (p = 0.15 s for
\* fire, 0.12 s for ice), so at every time of the window exactly one palette
\* layer is opaque, and each layer is opaque for a fifth of a cycle.
C27_PaletteLayers ==
  \A r \in Requests :
    (Compiled(r) /\ selectedAnimation(reqs[r].body) \in {"fire-text", "ice-text"})
    => LET lines == WrappedLines(reqs[r].body)
           cmds == reqs[r].filter.cmds
           p == ColorTime(selectedAnimation(reqs[r].body))
           opaque(l, k, t) == flickerAlphaAt(cmds[6 * (l - 1) + k + 1], t) = Rat(1, 1)
       IN /\ Len(cmds) = 6 * Len(lines)
          /\ \A l \in 1..Len(lines) :
               /\ \A j \in 1..6 :
                    /\ cmds[6 * (l - 1) + j].text = escapeQuoteColon(lines[l].text)
                    /\ cmds[6 * (l - 1) + j].role = IF j = 6 THEN "glow" ELSE "palette"
                    /\ \A t \in FlickerGrid(lines[l]) \cup {lines[l].endTime + 1} :
                         enabledAt(cmds[6 * (l - 1) + j], t) <=> t <= lines[l].endTime
               /\ \A t \in FlickerGrid(lines[l]) :
                    /\ flickerAlphaAt(cmds[6 * l], t) = Rat(3, 10)
                    /\ \A k \in 0..4 :
                         opaque(l, k, t) <=> (t - lines[l].startTime + k * p) % (5 * p) < p
                    /\ Cardinality({k \in 0..4 : opaque(l, k, t)}) = 1
               /\ lines[l].endTime - lines[l].startTime >= 5 * p
                    => \A k \in 0..4 :
                         5 * Cardinality({u \in 0..(5 * p - 1) :
                                            u % 30 = 0 /\ opaque(l, k, lines[l].startTime + u)})
                           = Cardinality({u \in 0..(5 * p - 1) : u % 30 = 0})

\* C27 witness: the fire-text graph of 'a b c d' (10 s to 14 s) with two
\* words per line: twelve commands; 0.3 s into the cue the fourth layer
\* (k = 3) of the second line is the opaque one.
C27_Witness ==
  \E r \in Requests :
    /\ Compiled(r) /\ selectedAnimation(reqs[r].body) = "fire-text"
    /\ reqs[r].body.subtitles.cues = <<CueABCD>>
    /\ selectedWordsPerLine(reqs[r].body) = 2
    /\ Len(reqs[r].filter.cmds) = 12
    /\ flickerAlphaAt(reqs[r].filter.cmds[10], 10300) = Rat(1, 1)
    /\ flickerAlphaAt(reqs[r].filter.cmds[7], 10300) = Rat(0, 1)
    /\ reqs[r].filter.cmds[12].role = "glow"
(***************************************************************************)
(* The transcription endpoint over word-level transcriptions               *)
(***************************************************************************)
\* The most words a transcription of the specification has.
MaxWords == 8

Letters == <<"a", "b", "c", "d", "e", "f", "g", "h">>

\* Words of 0.2 s that follow each other 0.3 s apart, 0.6 s after word
\* `pause` (0: no such pause); word `blank` (0: none) is a single space.
RECURSIVE StartOf(_, _)
StartOf(k, pause) ==
  IF k = 1 THEN 0 ELSE StartOf(k - 1, pause) + 200 + (IF k - 1 = pause THEN 600 ELSE 300)

WordTranscription(n, blank, pause) ==
  [words |-> [k \in 1..n |->
                [word |-> IF k = blank THEN <<" ">> ELSE <<Letters[((k - 1) % Len(Letters)) + 1]>>,
                 start |-> StartOf(k, pause), end |-> StartOf(k, pause) + 200]],
   hasSegments |-> FALSE, segments |-> <<>>, text |-> <<"t">>,
   duration |-> StartOf(n, pause) + 200]

WordTranscriptions ==
  UNION {{WordTranscription(n, blank, pause) : blank \in 0..n, pause \in 0..(n - 1)} :
           n \in 1..MaxWords}

NextTranscribe ==
  \/ \E file \in UploadedFiles : Upload(1, "transcribe", file)
  \/ Transcribe(1)
  \/ AudioEnd(1)
  \/ \E partial \in BOOLEAN : AudioError(1, partial)
  \/ \E transcription \in WordTranscriptions : FetchOk(1, transcription)
  \/ \E details \in FetchFailures : FetchFail(1, details)

\* One transcription request, over word-level transcriptions.
SpecTranscribe == Init /\ [][NextTranscribe]_vars

\* C19, as claimed: every cue the transcription endpoint answers with, for a
\* transcription with word-level timestamps, has between 1 and 6 words, and
\* no two consecutive words of a cue are more than 0.5 s apart (the next
\* word's start minus the previous word's end).
C19_CueWordsAndGaps ==
  \A r \in Requests :
    (reqs[r].ep = "transcribe" /\ reqs[r].cause = "transcribed")
    => \A k \in 1..Len(reqs[r].responses) :
         LET cues == reqs[r].responses[k].subtitles
         IN \A c \in 1..Len(cues) :
              LET ws == cues[c].wordTimings
              IN /\ Len(ws) >= 1 /\ Len(ws) <= wordsPerSegment
                 /\ \A i \in 1..(Len(ws) - 1) : ws[i + 1].start - ws[i].end <= 500
(***************************************************************************)
(* The position table over concurrent static requests                      *)
(***************************************************************************)
\* The nine position names, bottom row first, left to right.
PositionGrid ==
  << <<"bottom-left", "bottom-center", "bottom-right">>,
     <<"middle-left", "middle-center", "middle-right">>,
     <<"top-left", "top-center", "top-right">> >>

PositionBodies ==
  {[NoBody EXCEPT !.subtitles = Subtitles(<<CueC>>), !.position = PositionGrid[row][col]] :
     row \in 1..3, col \in 1..3}

Mp4File ==
  [present |-> TRUE, ext |-> <<".", "m", "p", "4">>,
   mime |-> <<"v", "i", "d", "e", "o", "/", "m", "p", "4">>]

NextPosition ==
  \/ Tick
  \/ \E r \in Requests : Upload(r, "add", Mp4File)
  \/ \E r \in Requests, body \in PositionBodies : AddSubtitles(r, body)
  \/ \E r \in Requests : EngineEnd(r)
  \/ \E r \in Requests, partial \in BOOLEAN : EngineError(r, partial)

\* Concurrent static render requests, over the nine position names.
SpecPosition == Init /\ [][NextPosition]_vars

\* C21: for the nine position names the alignment code of the document is
\* in 1..9 and row-major from bottom-left (bottom-left = 1 ... top-right =
\* 9); two documents of different position names never carry the same code,
\* and two documents of the same position name carry the same code.
C21_AlignmentRowMajor ==
  /\ \A p \in Documents :
       /\ files[p].doc.style.Alignment \in 1..9
       /\ \A row \in 1..3, col \in 1..3 :
            BodyOf(p).position = PositionGrid[row][col]
            => files[p].doc.style.Alignment = 3 * (row - 1) + col
  /\ \A p1, p2 \in Documents :
       (files[p1].doc.style.Alignment = files[p2].doc.style.Alignment)
         <=> (BodyOf(p1).position = BodyOf(p2).position)

\* C21 witness: the documents of a top-right and of a bottom-left request
\* exist together, with codes 9 and 1.
C21_Witness ==
  \E p1, p2 \in Documents :
    /\ BodyOf(p1).position = "top-right" /\ files[p1].doc.style.Alignment = 9
    /\ BodyOf(p2).position = "bottom-left" /\ files[p2].doc.style.Alignment = 1
(***************************************************************************)
(* The palette over animated requests                                      *)
(***************************************************************************)
PaletteBodies ==
  {[NoBody EXCEPT !.subtitles = Subtitles(cs), !.color = co, !.animation = an] :
     cs \in {<<CueC>>, <<CueAB>>, <<CueAB, CueC>>}, co \in ColorNames,
     an \in {"word-reveal", "word-highlight"}}

NextPalette ==
  \/ \E file \in UploadedFiles : Upload(1, "add", file)
  \/ \E body \in PaletteBodies : AddSubtitles(1, body)
  \/ EngineEnd(1)
  \/ \E partial \in BOOLEAN : EngineError(1, partial)

\* One animated render request, over the twelve palette colors.
SpecPalette == Init /\ [][NextPalette]_vars

\* The byte written as two hexadecimal digits at places i and i + 1 of s.
ByteAt(s, i) == 16 * HexVal(s[i]) + HexVal(s[i + 1])

\* The (R, G, B) bytes of a native token &HBBGGRR& ...
NativeRGB(s) == <<ByteAt(s, 7), ByteAt(s, 5), ByteAt(s, 3)>>

\* ... and of an overlay string 0xRRGGBB.
OverlayRGB(s) == <<ByteAt(s, 3), ByteAt(s, 5), ByteAt(s, 7)>>

\* The commands drawn in the text color: all of word-reveal, the base layer
\* of word-highlight.
InTextColor(r) ==
  IF selectedAnimation(reqs[r].body) = "word-reveal" THEN WithRole(r, "reveal")
  ELSE WithRole(r, "base")

\* C22: for each of the twelve palette colors, the color convertBGRtoHex
\* gives the draw commands is a string 0xRRGGBB of eight characters whose
\* (R, G, B) bytes are the (R, G, B) bytes of the color's native token
\* &HBBGGRR&.
C22_PaletteRoundTrip ==
  \A r \in Requests :
    (Compiled(r) /\ selectedAnimation(reqs[r].body) \in {"word-reveal", "word-highlight"}
       /\ reqs[r].body.color \in ColorNames)
    => \A k \in 1..Len(InTextColor(r)) :
         LET c == InTextColor(r)[k].fontcolor
         IN /\ Len(c) = 8 /\ c[1] = "0" /\ c[2] = "x"
            /\ \A i \in 3..8 : c[i] \in HexDigits
            /\ OverlayRGB(c) = NativeRGB(textColor(reqs[r].body))

\* C22 witness: an orange word-reveal request, whose commands are drawn in
\* 0xff8000, (255, 128, 0) as in the native token &H0080FF&.
C22_Witness ==
  \E r \in Requests :
    /\ Compiled(r) /\ selectedAnimation(reqs[r].body) = "word-reveal"
    /\ reqs[r].body.color = "orange"
    /\ Len(WithRole(r, "reveal")) >= 1
    /\ WithRole(r, "reveal")[1].fontcolor = <<"0", "x", "f", "f", "8", "0", "0", "0">>
    /\ NativeRGB(textColor(reqs[r].body)) = <<255, 128, 0>>

CueRagged ==
  [text |-> <<"a", "\n", "b", " ", " ", "c">>, startTime |-> 0, endTime |-> 2500,
   wordTimings |-> <<>>]

WrapCueLists ==
  {<<CueABCD>>, <<CueAB>>, <<CueC>>, <<CueBlank>>, <<CueRagged>>, <<CueDelims>>,
   <<CueABCD, CueRagged>>}

WrapFields == {<<>>, <<"0">>, <<"1">>, <<"2">>, <<"3">>, <<"5">>}

WrapBodies ==
  {[NoBody EXCEPT !.subtitles = Subtitles(cs), !.wordsPerLine = wpl, !.animation = an] :
     cs \in WrapCueLists, wpl \in WrapFields, an \in {"", "none"}}

NextWrap ==
  \/ \E file \in UploadedFiles : Upload(1, "add", file)
  \/ \E body \in WrapBodies : AddSubtitles(1, body)
  \/ EngineEnd(1)
  \/ \E partial \in BOOLEAN : EngineError(1, partial)

\* One static render request, over texts and line widths.
SpecWrap == Init /\ [][NextWrap]_vars

\* The lines of an entry text: what lies between its line-break tokens \N.
RECURSIVE EntryLines(_, _, _)
EntryLines(s, cur, acc) ==
  IF s = <<>> THEN Append(acc, cur)
  ELSE IF Len(s) >= 2 /\ s[1] = "\\" /\ s[2] = "N"
  THEN EntryLines(Tail(Tail(s)), <<>>, Append(acc, cur))
  ELSE EntryLines(Tail(s), Append(cur, Head(s)), acc)

\* C28: on the static path with wordsPerLine = k > 0, the entry text of a
\* cue with more than k words is the cue's words in their order, in lines
\* joined by the token \N and holding no raw newline, every line but the
\* last of exactly k words (joined by one space), the last of 1..k words; a
\* cue of at most k words, and every cue when k = 0, is emitted verbatim.
C28_StaticWrap ==
  \A p \in Documents :
    LET k == selectedWordsPerLine(BodyOf(p))
        cues == BodyOf(p).subtitles.cues
    IN \A c \in 1..Len(cues) :
         LET words == splitWords(cues[c].text)
             entry == files[p].doc.events[c].Text
             lines == EntryLines(entry, <<>>, <<>>)
         IN IF k = 0 \/ Len(words) <= k THEN entry = cues[c].text
            ELSE /\ \A i \in 1..Len(entry) : entry[i] \notin {"\n", "\t"}
                 /\ flatten([l \in 1..Len(lines) |-> splitWords(lines[l])]) = words
                 /\ \A l \in 1..Len(lines) :
                      /\ lines[l] = join(splitWords(lines[l]), <<" ">>)
                      /\ Len(splitWords(lines[l])) >= 1
                      /\ Len(splitWords(lines[l])) <= k
                      /\ l < Len(lines) => Len(splitWords(lines[l])) = k

\* C28 witness: the document of 'a b c d' with three words per line, whose
\* entry reads a b c\Nd.
C28_Witness ==
  \E p \in Documents :
    /\ selectedWordsPerLine(BodyOf(p)) = 3
    /\ BodyOf(p).subtitles.cues = <<CueABCD>>
    /\ files[p].doc.events[1].Text = <<"a", " ", "b", " ", "c", "\\", "N", "d">>

(***************************************************************************)
(* The filter graph handed to the media engine                             *)
(***************************************************************************)
\* C29: whenever POST /api/add-subtitles reaches the engine invocation, the
\* assembled filter graph is defined and holds at least one document
\* reference or draw command.
C29_GraphNeverEmpty ==
  \A r \in Requests :
    (reqs[r].ep = "add" /\ reqs[r].invoked) =>
      (reqs[r].filter.defined /\ Len(reqs[r].filter.cmds) >= 1)

(***************************************************************************)
(* The words of the transcription in the answered cues                     *)
(***************************************************************************)
\* C30: when the service returns word-level timestamps, the wordTimings of
\* the answered cues, concatenated in cue order, are the service's words
\* that are non-empty after cleaning, in their order, each once.
C30_WordsPreserved ==
  \A r \in Requests :
    (/\ reqs[r].ep = "transcribe"
     /\ reqs[r].cause = "transcribed"
     /\ Len(reqs[r].transcription.words) > 0)
    => \A k \in 1..Len(reqs[r].responses) :
         LET cues == reqs[r].responses[k].subtitles
             ws == reqs[r].transcription.words
             cleaned == [i \in 1..Len(ws) |->
                           [word |-> trim(stripControl(ws[i].word)),
                            start |-> ws[i].start, end |-> ws[i].end]]
         IN flatten([c \in 1..Len(cues) |-> cues[c].wordTimings])
              = SelectSeq(cleaned, LAMBDA w : w.word # <<>>)
====
